---------------------------- MODULE Spec2Model ----------------------------
(***************************************************************************)
(* Model of the colour classifier of ColorLensNew (src/ColorDetector.ts).  *)
(*                                                                         *)
(* JavaScript numbers are modelled as exact rationals [n |-> Int, d |->    *)
(* Nat \ {0}] in lowest terms (IEEE-754 rounding is not modelled).         *)
(* Math.sqrt is strictly monotone on the non-negative reals, so            *)
(* hsvDistance carries the radicand (the squared distance) and distances   *)
(* are compared through it.  The radicand's numerator and denominator do   *)
(* not fit TLC's 32-bit integers; they are kept as little-endian           *)
(* sequences of base-2^15 limbs.                                           *)
(***************************************************************************)
EXTENDS Integers, Sequences, FiniteSets, TLC

(***************************************************************************)
(* Exact rational arithmetic for JavaScript number expressions.            *)
(***************************************************************************)
Abs(x) == IF x < 0 THEN -x ELSE x

RECURSIVE Gcd(_, _)
Gcd(a, b) == IF b = 0 THEN a ELSE Gcd(b, a % b)

\* n/d in lowest terms with a positive denominator
Rat(n, d) ==
    LET s == IF d < 0 THEN -1 ELSE 1
        g == Gcd(Abs(n), Abs(d))
    IN  [n |-> (s * n) \div g, d |-> (s * d) \div g]

Num(k) == [n |-> k, d |-> 1]

RAdd(a, b) == Rat(a.n * b.d + b.n * a.d, a.d * b.d)
RSub(a, b) == Rat(a.n * b.d - b.n * a.d, a.d * b.d)
RMul(a, b) ==
    LET g1 == Gcd(Abs(a.n), b.d)
        g2 == Gcd(Abs(b.n), a.d)
    IN  Rat((a.n \div g1) * (b.n \div g2), (a.d \div g2) * (b.d \div g1))
RDiv(a, b) == RMul(a, Rat(b.d, b.n))
RLt(a, b) == a.n * b.d < b.n * a.d
RGt(a, b) == RLt(b, a)
RGe(a, b) == ~RLt(a, b)
RAbs(a) == [n |-> Abs(a.n), d |-> a.d]
RMin(a, b) == IF RLt(b, a) THEN b ELSE a
RMax(a, b) == IF RLt(a, b) THEN b ELSE a
\* x % m of JavaScript for x >= 0 and an integer m > 0
RMod(a, m) == Rat(a.n % (m * a.d), a.d)
\* Math.round: the nearest integer, halves going up
RRound(a) == (2 * a.n + a.d) \div (2 * a.d)

(***************************************************************************)
(* Natural numbers beyond 32 bits: little-endian sequences of limbs.       *)
(***************************************************************************)
Base == 2 ^ 15

RECURSIVE BigOf(_)
BigOf(k) == IF k = 0 THEN << >> ELSE << k % Base >> \o BigOf(k \div Base)

RECURSIVE BigAddC(_, _, _)
BigAddC(a, b, c) ==
    IF a = << >> /\ b = << >>
    THEN IF c = 0 THEN << >> ELSE << c >>
    ELSE LET x == IF a = << >> THEN 0 ELSE Head(a)
             y == IF b = << >> THEN 0 ELSE Head(b)
             t == x + y + c
         IN  << t % Base >> \o
             BigAddC(IF a = << >> THEN a ELSE Tail(a),
                     IF b = << >> THEN b ELSE Tail(b), t \div Base)

BigAdd(a, b) == BigAddC(a, b, 0)

\* a * k + c for a limb-sized k
RECURSIVE BigMulLimb(_, _, _)
BigMulLimb(a, k, c) ==
    IF a = << >>
    THEN IF c = 0 THEN << >> ELSE << c >>
    ELSE LET t == Head(a) * k + c
         IN  << t % Base >> \o BigMulLimb(Tail(a), k, t \div Base)

RECURSIVE BigMul(_, _)
BigMul(a, b) ==
    IF a = << >> \/ b = << >>
    THEN << >>
    ELSE LET rest == BigMul(Tail(a), b)
         IN  BigAdd(IF Head(a) = 0 THEN << >> ELSE BigMulLimb(b, Head(a), 0),
                    IF rest = << >> THEN << >> ELSE << 0 >> \o rest)

\* a < b for limb sequences without leading (most significant) zero limbs
RECURSIVE BigLtFrom(_, _, _)
BigLtFrom(a, b, i) ==
    IF i = 0 THEN FALSE
    ELSE IF a[i] # b[i] THEN a[i] < b[i]
    ELSE BigLtFrom(a, b, i - 1)

BigLt(a, b) ==
    IF Len(a) # Len(b) THEN Len(a) < Len(b) ELSE BigLtFrom(a, b, Len(a))

\* non-negative rationals with big numerator and denominator
BigRat(a) == [n |-> BigOf(a.n), d |-> BigOf(a.d)]
BRAdd(a, b) == [n |-> BigAdd(BigMul(a.n, b.d), BigMul(b.n, a.d)),
                d |-> BigMul(a.d, b.d)]
BRMul(a, b) == [n |-> BigMul(a.n, b.n), d |-> BigMul(a.d, b.d)]
BRLt(a, b) == BigLt(BigMul(a.n, b.d), BigMul(b.n, a.d))
BREq(a, b) == BigMul(a.n, b.d) = BigMul(b.n, a.d)


(***************************************************************************)
(* ColorInfo values.  A hex string is the sequence of its characters.      *)
(***************************************************************************)
Rgb(r, g, b) == [r |-> r, g |-> g, b |-> b]
Hsv(h, s, v) == [h |-> h, s |-> s, v |-> v]
ColorInfo(name, hex, rgb, hsv) ==
    [name |-> name, hex |-> hex, rgb |-> rgb, hsv |-> hsv]

COLOR_MAP ==
    << ColorInfo("Red", <<"#","F","F","0","0","0","0">>, Rgb(255, 0, 0),
                 Hsv(Num(0), Num(1), Num(1))),
       ColorInfo("Green", <<"#","0","0","F","F","0","0">>, Rgb(0, 255, 0),
                 Hsv(Num(120), Num(1), Num(1))),
       ColorInfo("Blue", <<"#","0","0","0","0","F","F">>, Rgb(0, 0, 255),
                 Hsv(Num(240), Num(1), Num(1))),
       ColorInfo("Yellow", <<"#","F","F","F","F","0","0">>, Rgb(255, 255, 0),
                 Hsv(Num(60), Num(1), Num(1))),
       ColorInfo("Cyan", <<"#","0","0","F","F","F","F">>, Rgb(0, 255, 255),
                 Hsv(Num(180), Num(1), Num(1))),
       ColorInfo("Magenta", <<"#","F","F","0","0","F","F">>, Rgb(255, 0, 255),
                 Hsv(Num(300), Num(1), Num(1))),
       ColorInfo("White", <<"#","F","F","F","F","F","F">>, Rgb(255, 255, 255),
                 Hsv(Num(0), Num(0), Num(1))),
       ColorInfo("Black", <<"#","0","0","0","0","0","0">>, Rgb(0, 0, 0),
                 Hsv(Num(0), Num(0), Num(0))),
       ColorInfo("Gray", <<"#","8","0","8","0","8","0">>, Rgb(128, 128, 128),
                 Hsv(Num(0), Num(0), Rat(5, 10))),
       ColorInfo("Orange", <<"#","F","F","A","5","0","0">>, Rgb(255, 165, 0),
                 Hsv(Num(39), Num(1), Num(1))),
       ColorInfo("Purple", <<"#","8","0","0","0","8","0">>, Rgb(128, 0, 128),
                 Hsv(Num(300), Num(1), Rat(5, 10))),
       ColorInfo("Pink", <<"#","F","F","C","0","C","B">>, Rgb(255, 192, 203),
                 Hsv(Num(350), Rat(25, 100), Num(1))),
       ColorInfo("Brown", <<"#","A","5","2","A","2","A">>, Rgb(165, 42, 42),
                 Hsv(Num(0), Rat(75, 100), Rat(65, 100))),
       ColorInfo("Lime", <<"#","0","0","F","F","0","0">>, Rgb(0, 255, 0),
                 Hsv(Num(120), Num(1), Num(1))),
       ColorInfo("Navy", <<"#","0","0","0","0","8","0">>, Rgb(0, 0, 128),
                 Hsv(Num(240), Num(1), Rat(5, 10))),
       ColorInfo("Teal", <<"#","0","0","8","0","8","0">>, Rgb(0, 128, 128),
                 Hsv(Num(180), Num(1), Rat(5, 10))),
       ColorInfo("Maroon", <<"#","8","0","0","0","0","0">>, Rgb(128, 0, 0),
                 Hsv(Num(0), Num(1), Rat(5, 10))),
       ColorInfo("Olive", <<"#","8","0","8","0","0","0">>, Rgb(128, 128, 0),
                 Hsv(Num(60), Num(1), Rat(5, 10))),
       ColorInfo("Light Gray", <<"#","D","3","D","3","D","3">>,
                 Rgb(211, 211, 211), Hsv(Num(0), Num(0), Rat(83, 100))),
       ColorInfo("Dark Gray", <<"#","4","0","4","0","4","0">>,
                 Rgb(64, 64, 64), Hsv(Num(0), Num(0), Rat(25, 100))) >>

(***************************************************************************)
(* ColorDetector.rgbToHsv                                                  *)
(***************************************************************************)
\* rgbToHsv returning the unused local sum (max + min) as the value
rgbToHsvSum(r0, g0, b0) ==
    LET r == RDiv(Num(r0), Num(255))
        g == RDiv(Num(g0), Num(255))
        b == RDiv(Num(b0), Num(255))
        max == RMax(RMax(r, g), b)
        min == RMin(RMin(r, g), b)
        diff == RSub(max, min)
        sum == RAdd(max, min)
        s == IF max = Num(0) THEN Num(0) ELSE RDiv(diff, max)
        h == IF diff # Num(0)
             THEN LET h6 == CASE max = r ->
                                 RAdd(RDiv(RSub(g, b), diff),
                                      IF RLt(g, b) THEN Num(6) ELSE Num(0))
                              [] max # r /\ max = g ->
                                 RAdd(RDiv(RSub(b, r), diff), Num(2))
                              [] OTHER ->
                                 RAdd(RDiv(RSub(r, g), diff), Num(4))
                  IN  RMul(h6, Num(60))
             ELSE Num(0)
    IN  Hsv(h, s, sum)

\* rgbToHsv that leaves a negative hue as it is
rgbToHsvNoWrap(r0, g0, b0) ==
    LET r == RDiv(Num(r0), Num(255))
        g == RDiv(Num(g0), Num(255))
        b == RDiv(Num(b0), Num(255))
        max == RMax(RMax(r, g), b)
        min == RMin(RMin(r, g), b)
        diff == RSub(max, min)
        s == IF max = Num(0) THEN Num(0) ELSE RDiv(diff, max)
        v == max
        h == IF diff # Num(0)
             THEN LET h6 == CASE max = r ->
                                 RAdd(RDiv(RSub(g, b), diff),
                                      Num(0))
                              [] max # r /\ max = g ->
                                 RAdd(RDiv(RSub(b, r), diff), Num(2))
                              [] OTHER ->
                                 RAdd(RDiv(RSub(r, g), diff), Num(4))
                  IN  RMul(h6, Num(60))
             ELSE Num(0)
    IN  Hsv(h, s, v)

\* rgbToHsv with "g <= b ? 6 : 0"
rgbToHsvWrapLe(r0, g0, b0) ==
    LET r == RDiv(Num(r0), Num(255))
        g == RDiv(Num(g0), Num(255))
        b == RDiv(Num(b0), Num(255))
        max == RMax(RMax(r, g), b)
        min == RMin(RMin(r, g), b)
        diff == RSub(max, min)
        s == IF max = Num(0) THEN Num(0) ELSE RDiv(diff, max)
        v == max
        h == IF diff # Num(0)
             THEN LET h6 == CASE max = r ->
                                 RAdd(RDiv(RSub(g, b), diff),
                                      IF ~RGt(g, b) THEN Num(6) ELSE Num(0))
                              [] max # r /\ max = g ->
                                 RAdd(RDiv(RSub(b, r), diff), Num(2))
                              [] OTHER ->
                                 RAdd(RDiv(RSub(r, g), diff), Num(4))
                  IN  RMul(h6, Num(60))
             ELSE Num(0)
    IN  Hsv(h, s, v)

rgbToHsv(r0, g0, b0) ==
    LET r == RDiv(Num(r0), Num(255))
        g == RDiv(Num(g0), Num(255))
        b == RDiv(Num(b0), Num(255))
        max == RMax(RMax(r, g), b)
        min == RMin(RMin(r, g), b)
        diff == RSub(max, min)
        s == IF max = Num(0) THEN Num(0) ELSE RDiv(diff, max)
        v == max
        h == IF diff # Num(0)
             THEN LET h6 == CASE max = r ->
                                 RAdd(RDiv(RSub(g, b), diff),
                                      IF RLt(g, b) THEN Num(6) ELSE Num(0))
                              [] max # r /\ max = g ->
                                 RAdd(RDiv(RSub(b, r), diff), Num(2))
                              [] OTHER ->
                                 RAdd(RDiv(RSub(r, g), diff), Num(4))
                  IN  RMul(h6, Num(60))
             ELSE Num(0)
    IN  Hsv(h, s, v)

(***************************************************************************)
(* ColorDetector.hsvDistance.  The returned number is                      *)
(* Math.sqrt(hDiff * hDiff * 2 + sDiff * sDiff + vDiff * vDiff); it is     *)
(* represented exactly by the three differences it is computed from, and   *)
(* Radicand gives the value under the square root.                         *)
(***************************************************************************)
\* hsvDistance whose wrap-around term lacks Math.abs
hsvDistanceNoAbs(hsv1, hsv2) ==
    [hDiff |-> RDiv(RMin(RAbs(RSub(hsv1.h, hsv2.h)),
                         RSub(Num(360), RSub(hsv1.h, hsv2.h))),
                    Num(180)),
     sDiff |-> RAbs(RSub(hsv1.s, hsv2.s)),
     vDiff |-> RAbs(RSub(hsv1.v, hsv2.v))]

\* hsvDistance with a linear (not circular) hue difference
hsvDistanceLinear(hsv1, hsv2) ==
    [hDiff |-> RDiv(RAbs(RSub(hsv1.h, hsv2.h)), Num(180)),
     sDiff |-> RAbs(RSub(hsv1.s, hsv2.s)),
     vDiff |-> RAbs(RSub(hsv1.v, hsv2.v))]

hsvDistance(hsv1, hsv2) ==
    [hDiff |-> RDiv(RMin(RAbs(RSub(hsv1.h, hsv2.h)),
                         RSub(Num(360), RAbs(RSub(hsv1.h, hsv2.h)))),
                    Num(180)),
     sDiff |-> RAbs(RSub(hsv1.s, hsv2.s)),
     vDiff |-> RAbs(RSub(hsv1.v, hsv2.v))]

Radicand(dst) ==
    LET hDiff == BigRat(dst.hDiff)
        sDiff == BigRat(dst.sDiff)
        vDiff == BigRat(dst.vDiff)
    IN  BRAdd(BRAdd(BRMul(BRMul(hDiff, hDiff), BigRat(Num(2))),
                    BRMul(sDiff, sDiff)),
              BRMul(vDiff, vDiff))

\* Integer bounds lo <= Scale^2 * Radicand(dst) < hi, for differences in
\* [0, 1]: with a = floor(Scale * x), a^2 <= Scale^2 * x^2 < (a + 1)^2.
Scale == 2 ^ 13
Floor(a) == (a.n * Scale) \div a.d
RadicandBounds(dst) ==
    LET h == Floor(dst.hDiff)
        s == Floor(dst.sDiff)
        v == Floor(dst.vDiff)
    IN  [lo |-> 2 * h * h + s * s + v * v,
         hi |-> 2 * (h + 1) * (h + 1) + (s + 1) * (s + 1) + (v + 1) * (v + 1)]

\* distance1 < distance2 (the square root is strictly increasing).  The
\* integer bounds decide the comparison when they separate the two
\* radicands; otherwise the radicands are compared exactly.
DistLt(dst1, dst2) ==
    IF dst1 = dst2 THEN FALSE
    ELSE LET b1 == RadicandBounds(dst1)
             b2 == RadicandBounds(dst2)
         IN  IF b1.hi <= b2.lo THEN TRUE
             ELSE IF b2.hi <= b1.lo THEN FALSE
             ELSE BRLt(Radicand(dst1), Radicand(dst2))

DistEq(dst1, dst2) == BREq(Radicand(dst1), Radicand(dst2))

(***************************************************************************)
(* ColorDetector.rgbToHex                                                  *)
(***************************************************************************)
HexDigits ==
    <<"0","1","2","3","4","5","6","7","8","9","a","b","c","d","e","f">>

\* Number.prototype.toString(16) of a non-negative integer
RECURSIVE toString16(_)
toString16(n) ==
    IF n < 16 THEN << HexDigits[n + 1] >>
    ELSE toString16(n \div 16) \o << HexDigits[(n % 16) + 1] >>

toHex(n) ==
    LET hex == toString16(RRound(Num(n)))
    IN  IF Len(hex) = 1 THEN <<"0">> \o hex ELSE hex

\* rgbToHex producing upper-case digits
toHexUpper(n) ==
    LET up == <<"0","1","2","3","4","5","6","7","8","9","A","B","C","D","E","F">>
        v == RRound(Num(n))
    IN  << up[(v \div 16) + 1], up[(v % 16) + 1] >>

rgbToHexUpper(r, g, b) ==
    <<"#">> \o toHexUpper(r) \o toHexUpper(g) \o toHexUpper(b)

\* rgbToHex without the zero padding of one-digit channels
rgbToHexNoPad(r, g, b) ==
    <<"#">> \o toString16(RRound(Num(r))) \o toString16(RRound(Num(g)))
            \o toString16(RRound(Num(b)))

rgbToHex(r, g, b) == <<"#">> \o toHex(r) \o toHex(g) \o toHex(b)

(***************************************************************************)
(* ColorDetector.hsvToRgb                                                  *)
(***************************************************************************)
\* hsvToRgb with the second sector (60 <= h < 120) assigned as the first
hsvToRgbSwapped(h, s, v) ==
    LET c == RMul(v, s)
        x == RMul(c, RSub(Num(1),
                 RAbs(RSub(RMod(RDiv(h, Num(60)), 2), Num(1)))))
        m == RSub(v, c)
        z == Num(0)
        in(lo, hi) == RGe(h, Num(lo)) /\ RLt(h, Num(hi))
        t == CASE in(0, 60) -> <<c, x, z>>
               [] in(60, 120) -> <<c, x, z>>
               [] in(120, 180) -> <<z, c, x>>
               [] in(180, 240) -> <<z, x, c>>
               [] in(240, 300) -> <<x, z, c>>
               [] in(300, 360) -> <<c, z, x>>
               [] OTHER -> <<z, z, z>>
    IN  Rgb(RRound(RMul(RAdd(t[1], m), Num(255))),
            RRound(RMul(RAdd(t[2], m), Num(255))),
            RRound(RMul(RAdd(t[3], m), Num(255))))

\* hsvToRgb scaling the channels by 256
hsvToRgbScale256(h, s, v) ==
    LET c == RMul(v, s)
        x == RMul(c, RSub(Num(1),
                 RAbs(RSub(RMod(RDiv(h, Num(60)), 2), Num(1)))))
        m == RSub(v, c)
        z == Num(0)
        in(lo, hi) == RGe(h, Num(lo)) /\ RLt(h, Num(hi))
        t == CASE in(0, 60) -> <<c, x, z>>
               [] in(60, 120) -> <<x, c, z>>
               [] in(120, 180) -> <<z, c, x>>
               [] in(180, 240) -> <<z, x, c>>
               [] in(240, 300) -> <<x, z, c>>
               [] in(300, 360) -> <<c, z, x>>
               [] OTHER -> <<z, z, z>>
    IN  Rgb(RRound(RMul(RAdd(t[1], m), Num(256))),
            RRound(RMul(RAdd(t[2], m), Num(256))),
            RRound(RMul(RAdd(t[3], m), Num(256))))

hsvToRgb(h, s, v) ==
    LET c == RMul(v, s)
        x == RMul(c, RSub(Num(1),
                 RAbs(RSub(RMod(RDiv(h, Num(60)), 2), Num(1)))))
        m == RSub(v, c)
        z == Num(0)
        in(lo, hi) == RGe(h, Num(lo)) /\ RLt(h, Num(hi))
        t == CASE in(0, 60) -> <<c, x, z>>
               [] in(60, 120) -> <<x, c, z>>
               [] in(120, 180) -> <<z, c, x>>
               [] in(180, 240) -> <<z, x, c>>
               [] in(240, 300) -> <<x, z, c>>
               [] in(300, 360) -> <<c, z, x>>
               [] OTHER -> <<z, z, z>>
    IN  Rgb(RRound(RMul(RAdd(t[1], m), Num(255))),
            RRound(RMul(RAdd(t[2], m), Num(255))),
            RRound(RMul(RAdd(t[3], m), Num(255))))

(***************************************************************************)
(* The nearest-colour scan shared (textually duplicated) by detectColor    *)
(* and detectColorFromHsv: closestColor starts at COLOR_MAP[0] and the     *)
(* for-of loop visits every entry in order; i is the 1-based index of the  *)
(* entry visited next, closest the index of closestColor.                  *)
(***************************************************************************)
\* the loop with "distance <= minDistance"
RECURSIVE scanLoopLe(_, _, _, _)
scanLoopLe(inputHsv, i, closest, minDistance) ==
    IF i > Len(COLOR_MAP) THEN closest
    ELSE LET distance == hsvDistance(inputHsv, COLOR_MAP[i].hsv)
         IN  IF ~DistLt(minDistance, distance)
             THEN scanLoopLe(inputHsv, i + 1, i, distance)
             ELSE scanLoopLe(inputHsv, i + 1, closest, minDistance)

\* the loop without the assignment "minDistance = distance"
RECURSIVE scanLoopKeepMin(_, _, _, _)
scanLoopKeepMin(inputHsv, i, closest, minDistance) ==
    IF i > Len(COLOR_MAP) THEN closest
    ELSE LET distance == hsvDistance(inputHsv, COLOR_MAP[i].hsv)
         IN  IF DistLt(distance, minDistance)
             THEN scanLoopKeepMin(inputHsv, i + 1, i, minDistance)
             ELSE scanLoopKeepMin(inputHsv, i + 1, closest, minDistance)

RECURSIVE scanLoop(_, _, _, _)
scanLoop(inputHsv, i, closest, minDistance) ==
    IF i > Len(COLOR_MAP) THEN closest
    ELSE LET distance == hsvDistance(inputHsv, COLOR_MAP[i].hsv)
         IN  IF DistLt(distance, minDistance)
             THEN scanLoop(inputHsv, i + 1, i, distance)
             ELSE scanLoop(inputHsv, i + 1, closest, minDistance)

findClosest(inputHsv) ==
    scanLoop(inputHsv, 1, 1, hsvDistance(inputHsv, COLOR_MAP[1].hsv))

(***************************************************************************)
(* ColorDetector.detectColor.  at names the return statement taken.        *)
(* detectColorWith is the body of the method after its first statement,    *)
(* const inputHsv = this.rgbToHsv(r, g, b); detectColorRun binds inputHsv  *)
(* to that value once.                                                     *)
(***************************************************************************)
\* detectColor without the special handling for gray colors
detectColorWithNoGray(r, g, b, inputHsv) ==
    LET out(name) == ColorInfo(name, rgbToHex(r, g, b), Rgb(r, g, b), inputHsv)
    IN  IF RLt(inputHsv.v, Rat(1, 10))
        THEN [ret |-> out("Black"), at |-> "black"]
        ELSE IF RGt(inputHsv.v, Rat(9, 10)) /\ RLt(inputHsv.s, Rat(1, 10))
        THEN [ret |-> out("White"), at |-> "white"]
        ELSE [ret |-> out(COLOR_MAP[findClosest(inputHsv)].name),
              at |-> "scan"]

\* detectColor testing the gray colors before the very light ones
detectColorWithGrayFirst(r, g, b, inputHsv) ==
    LET out(name) == ColorInfo(name, rgbToHex(r, g, b), Rgb(r, g, b), inputHsv)
    IN  IF RLt(inputHsv.v, Rat(1, 10))
        THEN [ret |-> out("Black"), at |-> "black"]
        ELSE IF RLt(inputHsv.s, Rat(15, 100))
        THEN IF RLt(inputHsv.v, Rat(3, 10))
             THEN [ret |-> out("Dark Gray"), at |-> "darkgray"]
             ELSE IF RGt(inputHsv.v, Rat(7, 10))
             THEN [ret |-> out("Light Gray"), at |-> "lightgray"]
             ELSE [ret |-> out("Gray"), at |-> "gray"]
        ELSE IF RGt(inputHsv.v, Rat(9, 10)) /\ RLt(inputHsv.s, Rat(1, 10))
        THEN [ret |-> out("White"), at |-> "white"]
        ELSE [ret |-> out(COLOR_MAP[findClosest(inputHsv)].name),
              at |-> "scan"]

\* detectColor returning the canonical black for very dark inputs
detectColorWithLiteralBlack(r, g, b, inputHsv) ==
    LET out(name) == ColorInfo(name, rgbToHex(r, g, b), Rgb(r, g, b), inputHsv)
    IN  IF RLt(inputHsv.v, Rat(1, 10))
        THEN [ret |-> ColorInfo("Black", <<"#","0","0","0","0","0","0">>,
                                Rgb(0, 0, 0), inputHsv),
              at |-> "black"]
        ELSE IF RGt(inputHsv.v, Rat(9, 10)) /\ RLt(inputHsv.s, Rat(1, 10))
        THEN [ret |-> out("White"), at |-> "white"]
        ELSE IF RLt(inputHsv.s, Rat(15, 100))
        THEN IF RLt(inputHsv.v, Rat(3, 10))
             THEN [ret |-> out("Dark Gray"), at |-> "darkgray"]
             ELSE IF RGt(inputHsv.v, Rat(7, 10))
             THEN [ret |-> out("Light Gray"), at |-> "lightgray"]
             ELSE [ret |-> out("Gray"), at |-> "gray"]
        ELSE [ret |-> out(COLOR_MAP[findClosest(inputHsv)].name),
              at |-> "scan"]

\* detectColor with the gray colors limited to s < 0.1
detectColorWithLowSat(r, g, b, inputHsv) ==
    LET out(name) == ColorInfo(name, rgbToHex(r, g, b), Rgb(r, g, b), inputHsv)
    IN  IF RLt(inputHsv.v, Rat(1, 10))
        THEN [ret |-> out("Black"), at |-> "black"]
        ELSE IF RGt(inputHsv.v, Rat(9, 10)) /\ RLt(inputHsv.s, Rat(1, 10))
        THEN [ret |-> out("White"), at |-> "white"]
        ELSE IF RLt(inputHsv.s, Rat(1, 10))
        THEN IF RLt(inputHsv.v, Rat(3, 10))
             THEN [ret |-> out("Dark Gray"), at |-> "darkgray"]
             ELSE IF RGt(inputHsv.v, Rat(7, 10))
             THEN [ret |-> out("Light Gray"), at |-> "lightgray"]
             ELSE [ret |-> out("Gray"), at |-> "gray"]
        ELSE [ret |-> out(COLOR_MAP[findClosest(inputHsv)].name),
              at |-> "scan"]

\* detectColor with the gray colors widened to s < 0.25
detectColorWithWideGray(r, g, b, inputHsv) ==
    LET out(name) == ColorInfo(name, rgbToHex(r, g, b), Rgb(r, g, b), inputHsv)
    IN  IF RLt(inputHsv.v, Rat(1, 10))
        THEN [ret |-> out("Black"), at |-> "black"]
        ELSE IF RGt(inputHsv.v, Rat(9, 10)) /\ RLt(inputHsv.s, Rat(1, 10))
        THEN [ret |-> out("White"), at |-> "white"]
        ELSE IF RLt(inputHsv.s, Rat(25, 100))
        THEN IF RLt(inputHsv.v, Rat(3, 10))
             THEN [ret |-> out("Dark Gray"), at |-> "darkgray"]
             ELSE IF RGt(inputHsv.v, Rat(7, 10))
             THEN [ret |-> out("Light Gray"), at |-> "lightgray"]
             ELSE [ret |-> out("Gray"), at |-> "gray"]
        ELSE [ret |-> out(COLOR_MAP[findClosest(inputHsv)].name),
              at |-> "scan"]

\* detectColor with the Black gate at v < 0.2
detectColorWithDarkerGate(r, g, b, inputHsv) ==
    LET out(name) == ColorInfo(name, rgbToHex(r, g, b), Rgb(r, g, b), inputHsv)
    IN  IF RLt(inputHsv.v, Rat(2, 10))
        THEN [ret |-> out("Black"), at |-> "black"]
        ELSE IF RGt(inputHsv.v, Rat(9, 10)) /\ RLt(inputHsv.s, Rat(1, 10))
        THEN [ret |-> out("White"), at |-> "white"]
        ELSE IF RLt(inputHsv.s, Rat(15, 100))
        THEN IF RLt(inputHsv.v, Rat(3, 10))
             THEN [ret |-> out("Dark Gray"), at |-> "darkgray"]
             ELSE IF RGt(inputHsv.v, Rat(7, 10))
             THEN [ret |-> out("Light Gray"), at |-> "lightgray"]
             ELSE [ret |-> out("Gray"), at |-> "gray"]
        ELSE [ret |-> out(COLOR_MAP[findClosest(inputHsv)].name),
              at |-> "scan"]

detectColorWith(r, g, b, inputHsv) ==
    LET out(name) == ColorInfo(name, rgbToHex(r, g, b), Rgb(r, g, b), inputHsv)
    IN  IF RLt(inputHsv.v, Rat(1, 10))
        THEN [ret |-> out("Black"), at |-> "black"]
        ELSE IF RGt(inputHsv.v, Rat(9, 10)) /\ RLt(inputHsv.s, Rat(1, 10))
        THEN [ret |-> out("White"), at |-> "white"]
        ELSE IF RLt(inputHsv.s, Rat(15, 100))
        THEN IF RLt(inputHsv.v, Rat(3, 10))
             THEN [ret |-> out("Dark Gray"), at |-> "darkgray"]
             ELSE IF RGt(inputHsv.v, Rat(7, 10))
             THEN [ret |-> out("Light Gray"), at |-> "lightgray"]
             ELSE [ret |-> out("Gray"), at |-> "gray"]
        ELSE [ret |-> out(COLOR_MAP[findClosest(inputHsv)].name),
              at |-> "scan"]

detectColorRun(r, g, b) ==
    CHOOSE run \in {detectColorWith(r, g, b, inputHsv) :
                        inputHsv \in {rgbToHsv(r, g, b)}} : TRUE

detectColor(r, g, b) == detectColorRun(r, g, b).ret

(***************************************************************************)
(* ColorDetector.detectColorFromHsv                                        *)
(***************************************************************************)
\* detectColorFromHsv testing the gray colors before the very dark ones
detectColorFromHsvRunGrayFirst(h, s, v) ==
    LET inputHsv == Hsv(h, s, v)
    IN  IF RLt(s, Rat(15, 100))
        THEN IF RLt(v, Rat(3, 10))
             THEN [ret |-> ColorInfo("Dark Gray",
                                     <<"#","4","0","4","0","4","0">>,
                                     Rgb(64, 64, 64), inputHsv),
                   at |-> "darkgray"]
             ELSE IF RGt(v, Rat(7, 10))
             THEN [ret |-> ColorInfo("Light Gray",
                                     <<"#","D","3","D","3","D","3">>,
                                     Rgb(211, 211, 211), inputHsv),
                   at |-> "lightgray"]
             ELSE [ret |-> ColorInfo("Gray", <<"#","8","0","8","0","8","0">>,
                                     Rgb(128, 128, 128), inputHsv),
                   at |-> "gray"]
        ELSE IF RLt(v, Rat(1, 10))
        THEN [ret |-> ColorInfo("Black", <<"#","0","0","0","0","0","0">>,
                                Rgb(0, 0, 0), inputHsv),
              at |-> "black"]
        ELSE IF RGt(v, Rat(9, 10)) /\ RLt(s, Rat(1, 10))
        THEN [ret |-> ColorInfo("White", <<"#","F","F","F","F","F","F">>,
                                Rgb(255, 255, 255), inputHsv),
              at |-> "white"]
        ELSE LET rgb == hsvToRgb(h, s, v)
             IN  [ret |-> ColorInfo(COLOR_MAP[findClosest(inputHsv)].name,
                                    rgbToHex(rgb.r, rgb.g, rgb.b), rgb,
                                    inputHsv),
                  at |-> "scan"]

\* detectColorFromHsv with "v <= 0.3" for Dark Gray
detectColorFromHsvRunLe(h, s, v) ==
    LET inputHsv == Hsv(h, s, v)
    IN  IF RLt(v, Rat(1, 10))
        THEN [ret |-> ColorInfo("Black", <<"#","0","0","0","0","0","0">>,
                                Rgb(0, 0, 0), inputHsv),
              at |-> "black"]
        ELSE IF RGt(v, Rat(9, 10)) /\ RLt(s, Rat(1, 10))
        THEN [ret |-> ColorInfo("White", <<"#","F","F","F","F","F","F">>,
                                Rgb(255, 255, 255), inputHsv),
              at |-> "white"]
        ELSE IF RLt(s, Rat(15, 100))
        THEN IF ~RGt(v, Rat(3, 10))
             THEN [ret |-> ColorInfo("Dark Gray",
                                     <<"#","4","0","4","0","4","0">>,
                                     Rgb(64, 64, 64), inputHsv),
                   at |-> "darkgray"]
             ELSE IF RGt(v, Rat(7, 10))
             THEN [ret |-> ColorInfo("Light Gray",
                                     <<"#","D","3","D","3","D","3">>,
                                     Rgb(211, 211, 211), inputHsv),
                   at |-> "lightgray"]
             ELSE [ret |-> ColorInfo("Gray", <<"#","8","0","8","0","8","0">>,
                                     Rgb(128, 128, 128), inputHsv),
                   at |-> "gray"]
        ELSE LET rgb == hsvToRgb(h, s, v)
             IN  [ret |-> ColorInfo(COLOR_MAP[findClosest(inputHsv)].name,
                                    rgbToHex(rgb.r, rgb.g, rgb.b), rgb,
                                    inputHsv),
                  at |-> "scan"]

\* detectColorFromHsv formatting the Light Gray hex with rgbToHex
detectColorFromHsvRunHexOfRgb(h, s, v) ==
    LET inputHsv == Hsv(h, s, v)
    IN  IF RLt(v, Rat(1, 10))
        THEN [ret |-> ColorInfo("Black", <<"#","0","0","0","0","0","0">>,
                                Rgb(0, 0, 0), inputHsv),
              at |-> "black"]
        ELSE IF RGt(v, Rat(9, 10)) /\ RLt(s, Rat(1, 10))
        THEN [ret |-> ColorInfo("White", <<"#","F","F","F","F","F","F">>,
                                Rgb(255, 255, 255), inputHsv),
              at |-> "white"]
        ELSE IF RLt(s, Rat(15, 100))
        THEN IF RLt(v, Rat(3, 10))
             THEN [ret |-> ColorInfo("Dark Gray",
                                     <<"#","4","0","4","0","4","0">>,
                                     Rgb(64, 64, 64), inputHsv),
                   at |-> "darkgray"]
             ELSE IF RGt(v, Rat(7, 10))
             THEN [ret |-> ColorInfo("Light Gray",
                                     rgbToHex(211, 211, 211),
                                     Rgb(211, 211, 211), inputHsv),
                   at |-> "lightgray"]
             ELSE [ret |-> ColorInfo("Gray", <<"#","8","0","8","0","8","0">>,
                                     Rgb(128, 128, 128), inputHsv),
                   at |-> "gray"]
        ELSE LET rgb == hsvToRgb(h, s, v)
             IN  [ret |-> ColorInfo(COLOR_MAP[findClosest(inputHsv)].name,
                                    rgbToHex(rgb.r, rgb.g, rgb.b), rgb,
                                    inputHsv),
                  at |-> "scan"]

\* detectColorFromHsv returning the matched palette entry itself
detectColorFromHsvRunEntry(h, s, v) ==
    LET inputHsv == Hsv(h, s, v)
    IN  IF RLt(v, Rat(1, 10))
        THEN [ret |-> ColorInfo("Black", <<"#","0","0","0","0","0","0">>,
                                Rgb(0, 0, 0), inputHsv),
              at |-> "black"]
        ELSE IF RGt(v, Rat(9, 10)) /\ RLt(s, Rat(1, 10))
        THEN [ret |-> ColorInfo("White", <<"#","F","F","F","F","F","F">>,
                                Rgb(255, 255, 255), inputHsv),
              at |-> "white"]
        ELSE IF RLt(s, Rat(15, 100))
        THEN IF RLt(v, Rat(3, 10))
             THEN [ret |-> ColorInfo("Dark Gray",
                                     <<"#","4","0","4","0","4","0">>,
                                     Rgb(64, 64, 64), inputHsv),
                   at |-> "darkgray"]
             ELSE IF RGt(v, Rat(7, 10))
             THEN [ret |-> ColorInfo("Light Gray",
                                     <<"#","D","3","D","3","D","3">>,
                                     Rgb(211, 211, 211), inputHsv),
                   at |-> "lightgray"]
             ELSE [ret |-> ColorInfo("Gray", <<"#","8","0","8","0","8","0">>,
                                     Rgb(128, 128, 128), inputHsv),
                   at |-> "gray"]
        ELSE [ret |-> COLOR_MAP[findClosest(inputHsv)], at |-> "scan"]

detectColorFromHsvRun(h, s, v) ==
    LET inputHsv == Hsv(h, s, v)
    IN  IF RLt(v, Rat(1, 10))
        THEN [ret |-> ColorInfo("Black", <<"#","0","0","0","0","0","0">>,
                                Rgb(0, 0, 0), inputHsv),
              at |-> "black"]
        ELSE IF RGt(v, Rat(9, 10)) /\ RLt(s, Rat(1, 10))
        THEN [ret |-> ColorInfo("White", <<"#","F","F","F","F","F","F">>,
                                Rgb(255, 255, 255), inputHsv),
              at |-> "white"]
        ELSE IF RLt(s, Rat(15, 100))
        THEN IF RLt(v, Rat(3, 10))
             THEN [ret |-> ColorInfo("Dark Gray",
                                     <<"#","4","0","4","0","4","0">>,
                                     Rgb(64, 64, 64), inputHsv),
                   at |-> "darkgray"]
             ELSE IF RGt(v, Rat(7, 10))
             THEN [ret |-> ColorInfo("Light Gray",
                                     <<"#","D","3","D","3","D","3">>,
                                     Rgb(211, 211, 211), inputHsv),
                   at |-> "lightgray"]
             ELSE [ret |-> ColorInfo("Gray", <<"#","8","0","8","0","8","0">>,
                                     Rgb(128, 128, 128), inputHsv),
                   at |-> "gray"]
        ELSE LET rgb == hsvToRgb(h, s, v)
             IN  [ret |-> ColorInfo(COLOR_MAP[findClosest(inputHsv)].name,
                                    rgbToHex(rgb.r, rgb.g, rgb.b), rgb,
                                    inputHsv),
                  at |-> "scan"]

detectColorFromHsv(h, s, v) == detectColorFromHsvRun(h, s, v).ret

(***************************************************************************)
(* The calls a client can make.  A behaviour starts with the client's      *)
(* arguments drawn from bounded input sets (kind tells which arguments     *)
(* were drawn) and then runs the static methods on them; calls is the      *)
(* sequence of methods run so far.                                         *)
(***************************************************************************)
VARIABLES
    kind,      \* "rgb", "hsv" or "pair": which arguments the client holds
    calls,     \* names of the methods run so far, in order
    rgbIn,     \* the r, g, b arguments
    hsvIn,     \* the HSV value in hand (an argument, or rgbToHsv's result)
    hsvIn2,    \* the second argument of hsvDistance
    out,       \* the ColorInfo returned by detectColor / detectColorFromHsv
    at,        \* the return statement that produced out
    rgbOut,    \* the value returned by hsvToRgb
    dist,      \* the value returned by hsvDistance
    hexOut,    \* the string returned by rgbToHex
    palette,   \* the shared COLOR_MAP array
    frames,    \* the running call of each overlapping caller
    now,       \* Date.now(), in milliseconds
    aiCamera,  \* the camera component that detects through the AI model
    camera,    \* the camera component that can fall back to simulation
    app,       \* the App component and the handlers handed to its child
    image      \* one call of ImageProcessorModule.analyzeImageColor

vars == <<kind, calls, rgbIn, hsvIn, hsvIn2, out, at, rgbOut, dist, hexOut,
         palette, frames, now, aiCamera, camera, app, image>>
\* the state of the single calls, and of the overlapping calls
callVars == <<kind, calls, rgbIn, hsvIn, hsvIn2, out, at, rgbOut, dist, hexOut>>
frameVars == <<palette, frames>>
\* the state of the components around the detector
compVars == <<now, aiCamera, camera, app, image>>

(***************************************************************************)
(* The components around the detector, as they are after construction.     *)
(* A component's state is a record of its useState values; interval is the *)
(* timer its effect has set, together with the values of the render in     *)
(* which the effect ran, which are the values the timer's callback reads.  *)
(***************************************************************************)
\* Date.now() when the application starts; the clock advances by half the
\* period of the faster timer
StartTime == 10000
TimeStep == 1000 \div 2
\* the clock is followed for MaxSteps grains
MaxSteps == 5
\* capture runs followed per behaviour
MaxRuns == 2
\* the clock is followed for MaxWaits seconds of detections
MaxWaits == 4
\* bitmaps are up to MaxSide pixels wide and high
MaxSide == 4

NoInterval ==
    [set |-> FALSE, due |-> 0, isProcessing |-> FALSE,
     lastDetectionTime |-> 0, cameraReady |-> FALSE,
     aiModelLoaded |-> FALSE, isSimulationMode |-> FALSE]

\* src/ColorDetector.ts, CameraComponent: the useState initial values; the
\* mount effect has started requestCameraPermission and initializeAIModel
AiCameraInitial ==
    [isActive |-> FALSE, hasPermission |-> "null", cameraError |-> FALSE,
     cameraReady |-> FALSE, aiModelLoaded |-> FALSE,
     lastDetectionTime |-> 0, isProcessing |-> FALSE,
     currentColor |-> "White", initializeAIModel |-> "pending",
     interval |-> NoInterval, runs |-> << >>]

\* src/CameraComponent.tsx: the useState initial values; capturing counts the
\* captures that are pending, lastAttempt is the component's state at the
\* latest call of takePictureAsync
NoAttempt == [made |-> FALSE, cameraReady |-> FALSE,
              isSimulationMode |-> FALSE]
CameraInitial ==
    [isActive |-> FALSE, hasPermission |-> "null", cameraError |-> FALSE,
     cameraReady |-> FALSE, isSimulationMode |-> FALSE,
     interval |-> NoInterval, capturing |-> 0, lastAttempt |-> NoAttempt]

\* src/App.tsx: the useState initial values.  A name is a sequence of
\* characters.  held are the handleColorDetected closures that running
\* captures hold, spoken the latest two utterances, last the latest call of
\* handleColorDetected with the utterance that preceded it
NoDetection == [name |-> << >>, spoke |-> FALSE, lastName |-> << >>,
                lastTime |-> 0, at |-> 0]
AppInitial ==
    [lastSpokenColor |-> << >>, lastSpokenTime |-> 0, held |-> << >>,
     spoken |-> << >>, last |-> NoDetection]

\* no call of analyzeImageColor was made; input tells what the base64
\* argument holds, settled are the calls made on the promise
NoImage ==
    [pc |-> "idle", input |-> "none", width |-> 0, height |-> 0,
     pixels |-> << >>, samples |-> << >>, settled |-> << >>]

NoComponents ==
    /\ now = StartTime
    /\ aiCamera = AiCameraInitial
    /\ camera = CameraInitial
    /\ app = AppInitial
    /\ image = NoImage


\* Bounds of the input sets
RgbLevels == 5
HueSteps == 12
SvSteps == 10
DistHueSteps == 6

Chan == {(k * 255) \div RgbLevels : k \in 0..RgbLevels} \cup {25, 26, 128}
GridRgb == {Rgb(r, g, b) : r \in Chan, g \in Chan, b \in Chan}
GrayRgb == {Rgb(k, k, k) : k \in 0..255}
\* channels around the Black gate (v < 0.1 is max < 25.5)
DarkChan == {0, 12, 25, 26, 27}
DarkRgb == {Rgb(r, g, b) : r \in DarkChan, g \in DarkChan, b \in DarkChan}
\* the palette's own RGB triples
PaletteRgb == {COLOR_MAP[i].rgb : i \in 1..Len(COLOR_MAP)}
\* light channels giving saturations around the White and gray gates
PastelChan == {200, 225, 230, 255}
PastelRgb ==
    {Rgb(r, g, b) : r \in PastelChan, g \in PastelChan, b \in PastelChan}
\* dark channels just past the Black gate (v >= 0.1 is max >= 26)
ShadeChan == {22, 26, 31, 32}
ShadeRgb ==
    {Rgb(r, g, b) : r \in ShadeChan, g \in ShadeChan, b \in ShadeChan}
RgbInputs ==
    GridRgb \cup GrayRgb \cup DarkRgb \cup PaletteRgb \cup PastelRgb
    \cup ShadeRgb

Hues == {Rat(k * 360, HueSteps) : k \in 0..(HueSteps - 1)}
Unit == {Rat(k, SvSteps) : k \in 0..SvSteps}
\* values at and next to the thresholds of the special cases
Edge == {Rat(k, 100) : k \in {9, 10, 14, 15, 29, 30, 70, 71, 90, 91}}
HsvInputs ==
    {Hsv(h, s, v) : h \in Hues, s \in Unit, v \in Unit}
    \cup {Hsv(h, s, v) : h \in {Num(0), Num(120)}, s \in Edge, v \in Edge}
    \cup {Hsv(Num(120), Num(1), Num(1)), Hsv(Num(39), Num(1), Num(1))}

DistHues == {Rat(k * 360, DistHueSteps) : k \in 0..(DistHueSteps - 1)}
            \cup {Num(1), Num(3), Num(359)}
DistInputs ==
    {Hsv(h, s, v) : h \in DistHues,
                    s \in {Num(0), Rat(1, 4), Num(1)},
                    v \in {Num(0), Rat(65, 100), Num(1)}}

NoRgb == Rgb(0, 0, 0)
NoHsv == Hsv(Num(0), Num(0), Num(0))
NoColor == ColorInfo("", << >>, NoRgb, NoHsv)
NoDist == [hDiff |-> Num(0), sDiff |-> Num(0), vDiff |-> Num(0)]

(***************************************************************************)
(* The methods step by step, for callers that overlap.  palette is the     *)
(* module-level COLOR_MAP array, shared by all calls; frames holds, per    *)
(* caller, the activation of the method it is running: its arguments, its  *)
(* locals (inputHsv, closestColor, minDistance, the position of the for-of *)
(* iterator) and the value it returned.  A step is the method's entry up   *)
(* to the loop, one loop iteration, or the final return.  alias is the set *)
(* of palette entries whose objects the returned value shares.             *)
(***************************************************************************)
Callers == {"A", "B"}

\* loop iterations a frame may spend on one palette entry
VisitCap == 2

IdleFrame ==
    [pc |-> "idle", op |-> "", rgb |-> NoRgb, hsv |-> NoHsv,
     next |-> 0, closestColor |-> 0, minDistance |-> NoDist,
     visits |-> [k \in 1..Len(COLOR_MAP) |-> 0],
     ret |-> NoColor, names |-> << >>, alias |-> {}]

\* arguments of the overlapping calls
CallRgb == {Rgb(255, 0, 0), Rgb(128, 26, 25), Rgb(12, 25, 0)}
CallHsv == {Hsv(Num(120), Num(1), Num(1)),
            Hsv(Num(0), Rat(14, 100), Rat(3, 10)),
            Hsv(Num(39), Num(1), Num(1))}
\* triples Math.random() may produce in getRandomColor
RandomRgb == {Rgb(0, 128, 128), Rgb(200, 200, 200)}

CalledWith(op, rgb, hsv) ==
    [IdleFrame EXCEPT !.pc = "called", !.op = op, !.rgb = rgb, !.hsv = hsv]

\* the name the special cases give, "" when the scan decides
specialCase(s, v) ==
    IF RLt(v, Rat(1, 10)) THEN "Black"
    ELSE IF RGt(v, Rat(9, 10)) /\ RLt(s, Rat(1, 10)) THEN "White"
    ELSE IF RLt(s, Rat(15, 100))
    THEN IF RLt(v, Rat(3, 10)) THEN "Dark Gray"
         ELSE IF RGt(v, Rat(7, 10)) THEN "Light Gray"
         ELSE "Gray"
    ELSE ""

Init ==
    /\ calls = << >>
    /\ out = NoColor
    /\ at = "none"
    /\ rgbOut = NoRgb
    /\ dist = NoDist
    /\ hexOut = << >>
    /\ palette = COLOR_MAP
    /\ frames = [p \in Callers |-> IdleFrame]
    /\ NoComponents
    /\ \/ kind = "rgb" /\ rgbIn \in RgbInputs
          /\ hsvIn = NoHsv /\ hsvIn2 = NoHsv
       \/ kind = "hsv" /\ hsvIn \in HsvInputs
          /\ rgbIn = NoRgb /\ hsvIn2 = NoHsv
       \/ kind = "pair" /\ hsvIn \in DistInputs /\ hsvIn2 \in DistInputs
          /\ rgbIn = NoRgb

\* an HSV value is in hand: given by the client, or just derived from RGB
HsvInHand == (kind = "hsv" /\ calls = << >>) \/ calls = <<"rgbToHsv">>

DetectColor ==
    /\ kind = "rgb" /\ calls = << >>
    /\ LET run == detectColorRun(rgbIn.r, rgbIn.g, rgbIn.b)
       IN  out' = run.ret /\ at' = run.at
    /\ calls' = Append(calls, "detectColor")
    /\ UNCHANGED <<kind, rgbIn, hsvIn, hsvIn2, rgbOut, dist, hexOut>>
    /\ UNCHANGED <<frameVars, compVars>>

DetectColorFromHsv ==
    /\ HsvInHand
    /\ LET run == detectColorFromHsvRun(hsvIn.h, hsvIn.s, hsvIn.v)
       IN  out' = run.ret /\ at' = run.at
    /\ calls' = Append(calls, "detectColorFromHsv")
    /\ UNCHANGED <<kind, rgbIn, hsvIn, hsvIn2, rgbOut, dist, hexOut>>
    /\ UNCHANGED <<frameVars, compVars>>

RgbToHsv ==
    /\ kind = "rgb" /\ calls = << >>
    /\ hsvIn' = rgbToHsv(rgbIn.r, rgbIn.g, rgbIn.b)
    /\ calls' = Append(calls, "rgbToHsv")
    /\ UNCHANGED <<kind, rgbIn, hsvIn2, out, at, rgbOut, dist, hexOut>>
    /\ UNCHANGED <<frameVars, compVars>>

HsvToRgb ==
    /\ HsvInHand
    /\ rgbOut' = hsvToRgb(hsvIn.h, hsvIn.s, hsvIn.v)
    /\ calls' = Append(calls, "hsvToRgb")
    /\ UNCHANGED <<kind, rgbIn, hsvIn, hsvIn2, out, at, dist, hexOut>>
    /\ UNCHANGED <<frameVars, compVars>>

HsvDistance ==
    /\ kind = "pair" /\ calls = << >>
    /\ dist' = hsvDistance(hsvIn, hsvIn2)
    /\ calls' = Append(calls, "hsvDistance")
    /\ UNCHANGED <<kind, rgbIn, hsvIn, hsvIn2, out, at, rgbOut, hexOut>>
    /\ UNCHANGED <<frameVars, compVars>>

RgbToHex ==
    /\ kind = "rgb" /\ calls = << >>
    /\ hexOut' = rgbToHex(rgbIn.r, rgbIn.g, rgbIn.b)
    /\ calls' = Append(calls, "rgbToHex")
    /\ UNCHANGED <<kind, rgbIn, hsvIn, hsvIn2, out, at, rgbOut, dist>>
    /\ UNCHANGED <<frameVars, compVars>>

Next ==
    \/ DetectColor
    \/ DetectColorFromHsv
    \/ RgbToHsv
    \/ HsvToRgb
    \/ HsvDistance
    \/ RgbToHex

Spec == Init /\ [][Next]_vars

(***************************************************************************)
(* Overlapping calls, one step at a time.                                  *)
(***************************************************************************)
\* where a frame stands: the statement it executes next
AtGetRandomColor(f) == f.pc = "called" /\ f.op = "getRandomColor"
AtDetectColor(f) ==
    \/ f.pc = "called" /\ f.op = "detectColor"
    \/ f.pc = "detectColor"
AtDetectColorFromHsv(f) == f.pc = "called" /\ f.op = "detectColorFromHsv"
AtLoopBody(f) ==
    f.pc = "loop" /\ f.next <= Len(palette) /\ f.visits[f.next] < VisitCap
AtLoopExit(f) == f.pc = "loop" /\ f.next > Len(palette)
AtGetAvailableColors(f) == f.pc = "called" /\ f.op = "getAvailableColors"

\* a client invokes one of the public static methods
Call(p) ==
    /\ frames[p].pc \in {"idle", "done"}
    /\ \/ \E rgb \in CallRgb :
              frames' = [frames EXCEPT
                             ![p] = CalledWith("detectColor", rgb, NoHsv)]
       \/ \E hsv \in CallHsv :
              frames' = [frames EXCEPT
                             ![p] = CalledWith("detectColorFromHsv", NoRgb, hsv)]
       \/ frames' = [frames EXCEPT
                         ![p] = CalledWith("getRandomColor", NoRgb, NoHsv)]
       \/ frames' = [frames EXCEPT
                         ![p] = CalledWith("getAvailableColors", NoRgb, NoHsv)]
    /\ UNCHANGED <<palette, callVars, compVars>>

\* getRandomColor draws its triple and calls detectColor
GetRandomColor(p) ==
    /\ AtGetRandomColor(frames[p])
    /\ \E rgb \in RandomRgb :
           frames' = [frames EXCEPT ![p].rgb = rgb, ![p].pc = "detectColor"]
    /\ UNCHANGED <<palette, callVars, compVars>>

\* detectColor from its entry to the start of the loop, or to the return of
\* a special case
enterDetectColor(f, inputHsv) ==
    IF specialCase(inputHsv.s, inputHsv.v) # ""
    THEN [f EXCEPT !.pc = "done", !.hsv = inputHsv,
                   !.ret = detectColorWith(f.rgb.r, f.rgb.g, f.rgb.b,
                                           inputHsv).ret]
    ELSE [f EXCEPT !.pc = "loop", !.hsv = inputHsv, !.next = 1,
                   !.closestColor = 1,
                   !.minDistance = hsvDistance(inputHsv, palette[1].hsv)]

\* rgbToHsv on the triples the calls are made with, computed once
inputHsvOf ==
    [rgb \in RgbInputs \cup CallRgb \cup RandomRgb |->
         rgbToHsv(rgb.r, rgb.g, rgb.b)]

EnterDetectColor(p) ==
    /\ AtDetectColor(frames[p])
    /\ frames' = [frames EXCEPT
                      ![p] = enterDetectColor(frames[p],
                                              inputHsvOf[frames[p].rgb])]
    /\ UNCHANGED <<palette, callVars, compVars>>

\* detectColorFromHsv from its entry to the start of the loop, or to the
\* return of a special case
EnterDetectColorFromHsv(p) ==
    /\ AtDetectColorFromHsv(frames[p])
    /\ LET f == frames[p]
       IN  frames' = [frames EXCEPT ![p] =
               IF specialCase(f.hsv.s, f.hsv.v) # ""
               THEN [f EXCEPT !.pc = "done",
                              !.ret = detectColorFromHsvRun(
                                          f.hsv.h, f.hsv.s, f.hsv.v).ret]
               ELSE [f EXCEPT !.pc = "loop", !.next = 1, !.closestColor = 1,
                              !.minDistance =
                                  hsvDistance(f.hsv, palette[1].hsv)]]
    /\ UNCHANGED <<palette, callVars, compVars>>

\* one iteration of "for (const color of COLOR_MAP)" that leaves the
\* iterator where it is
VisitStay(p) ==
    /\ AtLoopBody(frames[p])
    /\ frames' = [frames EXCEPT ![p].visits[frames[p].next] = @ + 1]
    /\ UNCHANGED <<palette, callVars, compVars>>

\* one iteration of "for (const color of COLOR_MAP)"
Visit(p) ==
    /\ AtLoopBody(frames[p])
    /\ LET f == frames[p]
           distance == hsvDistance(f.hsv, palette[f.next].hsv)
           closer == DistLt(distance, f.minDistance)
       IN  frames' = [frames EXCEPT ![p] =
               [f EXCEPT !.minDistance = IF closer THEN distance ELSE @,
                         !.closestColor = IF closer THEN f.next ELSE @,
                         !.visits[f.next] = @ + 1,
                         !.next = @ + 1]]
    /\ UNCHANGED <<palette, callVars, compVars>>

\* the return after the loop, handing out the matched palette entry itself
ReturnEntry(p) ==
    /\ AtLoopExit(frames[p])
    /\ frames' = [frames EXCEPT
                      ![p].pc = "done",
                      ![p].ret = palette[frames[p].closestColor],
                      ![p].alias = {frames[p].closestColor}]
    /\ UNCHANGED <<palette, callVars, compVars>>

\* the return after the loop: a new object carrying the matched name
Return(p) ==
    /\ AtLoopExit(frames[p])
    /\ LET f == frames[p]
           name == palette[f.closestColor].name
           rgb == hsvToRgb(f.hsv.h, f.hsv.s, f.hsv.v)
       IN  frames' = [frames EXCEPT
               ![p].pc = "done",
               ![p].ret =
                   IF f.op = "detectColorFromHsv"
                   THEN ColorInfo(name, rgbToHex(rgb.r, rgb.g, rgb.b), rgb,
                                  f.hsv)
                   ELSE ColorInfo(name, rgbToHex(f.rgb.r, f.rgb.g, f.rgb.b),
                                  f.rgb, f.hsv)]
    /\ UNCHANGED <<palette, callVars, compVars>>

GetAvailableColors(p) ==
    /\ AtGetAvailableColors(frames[p])
    /\ frames' = [frames EXCEPT
                      ![p].pc = "done",
                      ![p].names = [i \in 1..Len(palette) |-> palette[i].name]]
    /\ UNCHANGED <<palette, callVars, compVars>>

NoCallVars ==
    /\ kind = "none" /\ calls = << >>
    /\ rgbIn = NoRgb /\ hsvIn = NoHsv /\ hsvIn2 = NoHsv
    /\ out = NoColor /\ at = "none"
    /\ rgbOut = NoRgb /\ dist = NoDist /\ hexOut = << >>

CallsInit ==
    /\ NoCallVars
    /\ palette = COLOR_MAP
    /\ frames = [p \in Callers |-> IdleFrame]
    /\ NoComponents

CallsNext ==
    \E p \in Callers :
        \/ Call(p)
        \/ GetRandomColor(p)
        \/ EnterDetectColor(p)
        \/ EnterDetectColorFromHsv(p)
        \/ Visit(p)
        \/ Return(p)
        \/ GetAvailableColors(p)

Calls == CallsInit /\ [][CallsNext]_vars

(***************************************************************************)
(* One call, step by step, on the inputs of the single calls.  A call runs *)
(* to completion once made, hence the fairness on its steps.               *)
(* StepsLeft bounds the steps a frame can still take.                      *)
(***************************************************************************)
OneCallInit ==
    /\ NoCallVars
    /\ palette = COLOR_MAP
    /\ NoComponents
    /\ \E f \in {CalledWith("detectColor", rgb, NoHsv) : rgb \in RgbInputs}
            \cup {CalledWith("detectColorFromHsv", NoRgb, hsv) :
                      hsv \in HsvInputs}
            \cup {CalledWith("getRandomColor", NoRgb, NoHsv),
                  CalledWith("getAvailableColors", NoRgb, NoHsv)} :
           frames = [p \in Callers |-> IF p = "A" THEN f ELSE IdleFrame]

StepNext ==
    \E p \in Callers :
        \/ GetRandomColor(p)
        \/ EnterDetectColor(p)
        \/ EnterDetectColorFromHsv(p)
        \/ Visit(p)
        \/ Return(p)
        \/ GetAvailableColors(p)

OneCall == OneCallInit /\ [][StepNext]_vars /\ WF_vars(StepNext)

\* some statement of the frame's method can execute
CanStep(f) ==
    \/ AtGetRandomColor(f) \/ AtDetectColor(f) \/ AtDetectColorFromHsv(f)
    \/ AtLoopBody(f) \/ AtLoopExit(f) \/ AtGetAvailableColors(f)

StepsLeft(f) ==
    CASE f.pc = "called" -> Len(palette) + 3
      [] f.pc = "detectColor" -> Len(palette) + 2
      [] f.pc = "loop" -> Len(palette) + 2 - f.next
      [] OTHER -> 0

(***************************************************************************)
(* Properties.                                                             *)
(***************************************************************************)
AfterDetectColor == calls = <<"detectColor">>
AfterDetectColorFromHsv ==
    Len(calls) > 0 /\ calls[Len(calls)] = "detectColorFromHsv"
AfterDetect == AfterDetectColor \/ AfterDetectColorFromHsv
AfterHsvDistance == calls = <<"hsvDistance">>
AfterRoundTrip == calls = <<"rgbToHsv", "hsvToRgb">>

MaxChannel(rgb) ==
    IF rgb.r >= rgb.g /\ rgb.r >= rgb.b THEN rgb.r
    ELSE IF rgb.g >= rgb.b THEN rgb.g ELSE rgb.b

\* the HSV triple the finished detect call classified
InputHsv ==
    IF AfterDetectColor THEN rgbToHsv(rgbIn.r, rgbIn.g, rgbIn.b) ELSE hsvIn

\* the palette index carrying a name (0 when no entry has it)
IndexOf(name) ==
    IF \E i \in 1..Len(COLOR_MAP) : COLOR_MAP[i].name = name
    THEN CHOOSE i \in 1..Len(COLOR_MAP) :
             /\ COLOR_MAP[i].name = name
             /\ \A j \in 1..(i - 1) : COLOR_MAP[j].name # name
    ELSE 0

\* C1: detectColor names every RGB input whose largest channel is below 26
\* "Black".
C1_DarkRgbIsBlack ==
    (AfterDetectColor /\ MaxChannel(rgbIn) < 26) => out.name = "Black"

C1_Witness ==
    /\ AfterDetectColor
    /\ rgbIn = Rgb(25, 12, 0)
    /\ out.name = "Black"

\* C2: detectColor names every pure grayscale input r = g = b with
\* 77 <= r <= 178 "Gray".
C2_MidGrayIsGray ==
    (/\ AfterDetectColor
     /\ rgbIn.r = rgbIn.g /\ rgbIn.g = rgbIn.b
     /\ rgbIn.r >= 77 /\ rgbIn.r <= 178) => out.name = "Gray"

C2_Witness ==
    /\ AfterDetectColor
    /\ rgbIn = Rgb(77, 77, 77)
    /\ out.name = "Gray"

\* C3: on the nearest-neighbour path of both entry points the returned name
\* is that of the lowest-index palette entry attaining the minimum distance
\* (every earlier entry is strictly farther, no entry is closer); "Lime" is
\* never returned and detectColorFromHsv(120, 1, 1) is "Green".
C3_FirstOccurrenceWins ==
    /\ (AfterDetect /\ at = "scan") =>
           LET x == InputHsv
               w == IndexOf(out.name)
           IN  /\ w # 0
               /\ \A j \in 1..Len(COLOR_MAP) :
                      LET dw == hsvDistance(x, COLOR_MAP[w].hsv)
                          dj == hsvDistance(x, COLOR_MAP[j].hsv)
                      IN  IF j < w THEN DistLt(dw, dj) ELSE ~DistLt(dj, dw)
    /\ AfterDetect => out.name # "Lime"
    /\ (AfterDetectColorFromHsv /\ hsvIn = Hsv(Num(120), Num(1), Num(1))) =>
           out.name = "Green"

C3_Witness ==
    /\ calls = <<"detectColorFromHsv">>
    /\ hsvIn = Hsv(Num(120), Num(1), Num(1))
    /\ at = "scan"
    /\ out.name = "Green"

\* C4: on the nearest-neighbour path the returned name belongs to a palette
\* entry than which no palette entry is strictly closer to the input HSV.
C4_WinnerIsNearest ==
    (AfterDetect /\ at = "scan") =>
        \E w \in 1..Len(COLOR_MAP) :
            /\ COLOR_MAP[w].name = out.name
            /\ \A j \in 1..Len(COLOR_MAP) :
                   ~DistLt(hsvDistance(InputHsv, COLOR_MAP[j].hsv),
                           hsvDistance(InputHsv, COLOR_MAP[w].hsv))

C4_Witness ==
    /\ AfterDetectColor
    /\ at = "scan"
    /\ rgbIn = Rgb(128, 26, 25)
    /\ out.name = "Brown"

\* C5: RGB (255, 0, 0) converts to HSV (0, 1, 1), and detectColor(255, 0, 0)
\* returns name "Red", hex "#ff0000", rgb (255, 0, 0) and hsv (0, 1, 1).
C5_PureRed ==
    /\ (calls = <<"rgbToHsv">> /\ rgbIn = Rgb(255, 0, 0)) =>
           hsvIn = Hsv(Num(0), Num(1), Num(1))
    /\ (AfterDetectColor /\ rgbIn = Rgb(255, 0, 0)) =>
           out = ColorInfo("Red", <<"#","f","f","0","0","0","0">>,
                           Rgb(255, 0, 0), Hsv(Num(0), Num(1), Num(1)))

C5_Witness ==
    /\ AfterDetectColor
    /\ rgbIn = Rgb(255, 0, 0)
    /\ out.name = "Red"
    /\ at = "scan"

\* C6: hsvToRgb applied to rgbToHsv(r, g, b) differs from (r, g, b) by at
\* most 1 in each channel.
C6_RoundTrip ==
    AfterRoundTrip =>
        /\ Abs(rgbOut.r - rgbIn.r) <= 1
        /\ Abs(rgbOut.g - rgbIn.g) <= 1
        /\ Abs(rgbOut.b - rgbIn.b) <= 1

C6_Witness ==
    /\ AfterRoundTrip
    /\ rgbIn = Rgb(26, 128, 25)
    /\ rgbOut = rgbIn

\* C7: hsvDistance(x, x) is 0, and hsvDistance(a, b) equals
\* hsvDistance(b, a).
C7_ZeroAndSymmetric ==
    AfterHsvDistance =>
        /\ hsvIn = hsvIn2 => Radicand(dist).n = BigOf(0)
        /\ DistEq(dist, hsvDistance(hsvIn2, hsvIn))

C7_Witness ==
    /\ AfterHsvDistance
    /\ hsvIn.h = Num(300) /\ hsvIn2.h = Num(0)
    /\ hsvIn.s # hsvIn2.s
    /\ Radicand(dist).n # BigOf(0)

\* C8: the hue term of hsvDistance is the circular gap between the hues
\* divided by 180 and lies in [0, 1]; the distance between (1, 1, 1) and
\* (359, 1, 1) is that of the 2-degree gap between (1, 1, 1) and (3, 1, 1).
C8_CircularHue ==
    AfterHsvDistance =>
        LET gap == RAbs(RSub(hsvIn.h, hsvIn2.h))
            circular == IF RGt(gap, Num(180)) THEN RSub(Num(360), gap)
                        ELSE gap
        IN  /\ dist.hDiff = RDiv(circular, Num(180))
            /\ RGe(dist.hDiff, Num(0)) /\ ~RGt(dist.hDiff, Num(1))
            /\ (/\ hsvIn = Hsv(Num(1), Num(1), Num(1))
                /\ hsvIn2 = Hsv(Num(359), Num(1), Num(1))) =>
                   DistEq(dist, hsvDistance(Hsv(Num(1), Num(1), Num(1)),
                                            Hsv(Num(3), Num(1), Num(1))))

C8_Witness ==
    /\ AfterHsvDistance
    /\ hsvIn = Hsv(Num(1), Num(1), Num(1))
    /\ hsvIn2 = Hsv(Num(359), Num(1), Num(1))
    /\ dist.hDiff = Rat(2, 180)

\* C9: in both entry points an input whose value v is below 0.1 is named
\* "Black" by the first return statement, whatever its hue and saturation.
C9_BlackGateFirst ==
    (AfterDetect /\ RLt(InputHsv.v, Rat(1, 10))) =>
        (out.name = "Black" /\ at = "black")

C9_Witness ==
    /\ calls = <<"detectColorFromHsv">>
    /\ hsvIn = Hsv(Num(120), Rat(9, 100), Rat(9, 100))
    /\ out.name = "Black"

\* C10: in both entry points an input with v > 0.9 and s < 0.1 is named
\* "White"; detectColor(255, 255, 255) is "White", detectColor(0, 0, 0) is
\* "Black" and detectColor(128, 128, 128) is "Gray".
C10_WhiteGate ==
    /\ (/\ AfterDetect
        /\ RGt(InputHsv.v, Rat(9, 10))
        /\ RLt(InputHsv.s, Rat(1, 10))) => out.name = "White"
    /\ (AfterDetectColor /\ rgbIn = Rgb(255, 255, 255)) => out.name = "White"
    /\ (AfterDetectColor /\ rgbIn = Rgb(0, 0, 0)) => out.name = "Black"
    /\ (AfterDetectColor /\ rgbIn = Rgb(128, 128, 128)) => out.name = "Gray"

C10_Witness ==
    /\ calls = <<"detectColorFromHsv">>
    /\ hsvIn = Hsv(Num(0), Rat(9, 100), Rat(91, 100))
    /\ out.name = "White"
    /\ at = "white"

\* C11: an input that passes the Black and White gates and has s < 0.15 is
\* named "Dark Gray" when v < 0.3, "Light Gray" when v > 0.7 and "Gray"
\* otherwise (v = 0.3 and v = 0.7 included) by both entry points, without
\* reaching the palette scan.
C11_GrayTiers ==
    AfterDetect =>
        LET s == InputHsv.s
            v == InputHsv.v
        IN  (/\ RGe(v, Rat(1, 10))
             /\ ~(RGt(v, Rat(9, 10)) /\ RLt(s, Rat(1, 10)))
             /\ RLt(s, Rat(15, 100))) =>
                /\ out.name = IF RLt(v, Rat(3, 10)) THEN "Dark Gray"
                              ELSE IF RGt(v, Rat(7, 10)) THEN "Light Gray"
                              ELSE "Gray"
                /\ at \in {"darkgray", "lightgray", "gray"}

C11_Witness ==
    /\ AfterDetectColorFromHsv
    /\ hsvIn = Hsv(Num(0), Rat(14, 100), Rat(3, 10))
    /\ out.name = "Gray"
    /\ at = "gray"

\* C12: in every branch of detectColor the result carries the input triple
\* as rgb, rgbToHex of the input triple as hex and rgbToHsv of the input as
\* hsv.
C12_RgbInputPreserved ==
    AfterDetectColor =>
        /\ at \in {"black", "white", "darkgray", "lightgray", "gray", "scan"}
        /\ out.rgb = rgbIn
        /\ out.hex = rgbToHex(rgbIn.r, rgbIn.g, rgbIn.b)
        /\ out.hsv = rgbToHsv(rgbIn.r, rgbIn.g, rgbIn.b)

C12_Witness ==
    /\ AfterDetectColor
    /\ at = "black"
    /\ rgbIn = Rgb(12, 25, 0)
    /\ out.rgb = rgbIn
    /\ out.hex = <<"#","0","c","1","9","0","0">>

\* the palette entry carrying a name
Entry(name) == COLOR_MAP[IndexOf(name)]

\* C13: in the special-case branches of detectColorFromHsv the result's hex
\* and rgb are fixed literals, Black #000000 (0,0,0), White #FFFFFF
\* (255,255,255), Dark Gray #404040 (64,64,64), Light Gray #D3D3D3
\* (211,211,211), Gray #808080 (128,128,128), each equal to the hex and rgb
\* of the palette entry of that name.
C13_CanonicalLiterals ==
    (AfterDetectColorFromHsv /\ at # "scan") =>
        /\ <<out.name, out.hex, out.rgb>> \in
               {<<"Black", <<"#","0","0","0","0","0","0">>, Rgb(0, 0, 0)>>,
                <<"White", <<"#","F","F","F","F","F","F">>,
                  Rgb(255, 255, 255)>>,
                <<"Dark Gray", <<"#","4","0","4","0","4","0">>,
                  Rgb(64, 64, 64)>>,
                <<"Light Gray", <<"#","D","3","D","3","D","3">>,
                  Rgb(211, 211, 211)>>,
                <<"Gray", <<"#","8","0","8","0","8","0">>,
                  Rgb(128, 128, 128)>>}
        /\ out.hex = Entry(out.name).hex
        /\ out.rgb = Entry(out.name).rgb

C13_Witness ==
    /\ AfterDetectColorFromHsv
    /\ hsvIn = Hsv(Num(120), Rat(1, 10), Rat(8, 10))
    /\ out.name = "Light Gray"
    /\ out.rgb = Rgb(211, 211, 211)

\* C14: in every branch of both entry points the result's hsv is the input
\* HSV (given, or derived from the input RGB), and in the palette-scan
\* branch of detectColorFromHsv the result's rgb is hsvToRgb(h, s, v) and
\* its hex is rgbToHex of that rgb, not the matched entry's.
C14_InputHsvKept ==
    AfterDetect =>
        /\ out.hsv = InputHsv
        /\ (AfterDetectColorFromHsv /\ at = "scan") =>
               /\ out.rgb = hsvToRgb(hsvIn.h, hsvIn.s, hsvIn.v)
               /\ out.hex = rgbToHex(out.rgb.r, out.rgb.g, out.rgb.b)

C14_Witness ==
    /\ AfterDetectColorFromHsv
    /\ at = "scan"
    /\ hsvIn = Hsv(Num(39), Num(1), Num(1))
    /\ out.name = "Orange"
    /\ out.rgb = Rgb(255, 166, 0)
    /\ out.rgb # Entry("Orange").rgb
    /\ out.hex = <<"#","f","f","a","6","0","0">>

AfterRgbToHsv == calls = <<"rgbToHsv">>

\* the palette entries whose rgb is the triple rgbToHsv was applied to
EntriesOfRgbIn == {i \in 1..Len(COLOR_MAP) : COLOR_MAP[i].rgb = rgbIn}

\* hue in [0, 360), saturation and value in [0, 1]
InRange(hsv) ==
    /\ RGe(hsv.h, Num(0)) /\ RLt(hsv.h, Num(360))
    /\ RGe(hsv.s, Num(0)) /\ ~RGt(hsv.s, Num(1))
    /\ RGe(hsv.v, Num(0)) /\ ~RGt(hsv.v, Num(1))

\* C15 (as claimed): every palette entry's hsv equals rgbToHsv of its own
\* rgb, with hue in [0, 360) and saturation and value in [0, 1].
C15_PaletteHsvDerived ==
    AfterRgbToHsv =>
        \A i \in EntriesOfRgbIn :
            COLOR_MAP[i].hsv = hsvIn /\ InRange(COLOR_MAP[i].hsv)

\* C15 (amended): every palette entry's hsv is within half a degree of hue
\* and within 0.005 of saturation and value of rgbToHsv of its own rgb (the
\* derived triple rounded to whole degrees and two decimals), with hue in
\* [0, 360) and saturation and value in [0, 1].
C15_PaletteHsvRounded ==
    AfterRgbToHsv =>
        \A i \in EntriesOfRgbIn :
            /\ ~RGt(RAbs(RSub(COLOR_MAP[i].hsv.h, hsvIn.h)), Rat(1, 2))
            /\ ~RGt(RAbs(RSub(COLOR_MAP[i].hsv.s, hsvIn.s)), Rat(5, 1000))
            /\ ~RGt(RAbs(RSub(COLOR_MAP[i].hsv.v, hsvIn.v)), Rat(5, 1000))
            /\ InRange(COLOR_MAP[i].hsv)

C15_Witness ==
    /\ AfterRgbToHsv
    /\ rgbIn = Rgb(255, 192, 203)
    /\ EntriesOfRgbIn = {IndexOf("Pink")}
    /\ hsvIn = Hsv(Rat(7340, 21), Rat(63, 255), Num(1))
    /\ Entry("Pink").hsv = Hsv(Num(350), Rat(1, 4), Num(1))

\* C16: for integer channels in 0..255 rgbToHsv returns hue in [0, 360),
\* saturation and value in [0, 1]; saturation is 0 when the largest channel
\* is 0 and hue is 0 when the three channels are equal.
C16_RgbToHsvRange ==
    AfterRgbToHsv =>
        /\ InRange(hsvIn)
        /\ MaxChannel(rgbIn) = 0 => hsvIn.s = Num(0)
        /\ (rgbIn.r = rgbIn.g /\ rgbIn.g = rgbIn.b) => hsvIn.h = Num(0)

C16_Witness ==
    /\ AfterRgbToHsv
    /\ rgbIn = Rgb(255, 0, 51)
    /\ hsvIn = Hsv(Num(348), Num(1), Num(1))

AfterRgbToHex == calls = <<"rgbToHex">>

\* the value of a lower-case hexadecimal digit (16 for any other character)
HexValue(c) ==
    IF \E k \in 0..15 : HexDigits[k + 1] = c
    THEN CHOOSE k \in 0..15 : HexDigits[k + 1] = c
    ELSE 16

\* the channel written at positions i, i + 1 of a hex string
ChannelAt(hex, i) == 16 * HexValue(hex[i]) + HexValue(hex[i + 1])

\* C17: for integer channels in 0..255 rgbToHex returns 7 characters, "#"
\* followed by two zero-padded hexadecimal digits per channel in r, g, b
\* order, always in the same (lower) case, 0 giving "00" and 255 "ff"; the
\* triple can be read back from the string, so distinct triples give
\* distinct strings.
C17_HexFormat ==
    AfterRgbToHex =>
        /\ Len(hexOut) = 7
        /\ hexOut[1] = "#"
        /\ \A i \in 2..7 : HexValue(hexOut[i]) < 16
        /\ Rgb(ChannelAt(hexOut, 2), ChannelAt(hexOut, 4),
               ChannelAt(hexOut, 6)) = rgbIn
        /\ rgbIn.r = 0 => SubSeq(hexOut, 2, 3) = <<"0", "0">>
        /\ rgbIn.b = 255 => SubSeq(hexOut, 6, 7) = <<"f", "f">>

C17_Witness ==
    /\ AfterRgbToHex
    /\ rgbIn = Rgb(0, 26, 255)
    /\ hexOut = <<"#","0","0","1","a","f","f">>

PaletteNames == {COLOR_MAP[i].name : i \in 1..Len(COLOR_MAP)}

Detecting(f) == f.op \in {"detectColor", "detectColorFromHsv", "getRandomColor"}

\* C18 (safety part): a call visits each of the 20 palette entries at most
\* once, and a returned result carries one of the palette names, which
\* include the names of the special cases.
C18_Bounded ==
    /\ Len(palette) = 20
    /\ {"Black", "White", "Gray", "Dark Gray", "Light Gray"} \subseteq PaletteNames
    /\ \A p \in Callers :
           /\ \A k \in 1..Len(palette) : frames[p].visits[k] <= 1
           /\ (frames[p].pc = "done" /\ Detecting(frames[p])) =>
                  frames[p].ret.name \in PaletteNames

\* C18 (progress part): a call that has not returned can take a step, and
\* every step brings it closer to its return.
C18_CanProceed ==
    \A p \in Callers :
        frames[p].pc \in {"idle", "done"} \/ CanStep(frames[p])

C18_Closer ==
    \A p \in Callers :
        frames'[p] # frames[p] =>
            StepsLeft(frames'[p]) < StepsLeft(frames[p])

\* C18: both entry points are total and terminate: on every well-formed input
\* the call returns a result after visiting each of the 20 palette entries
\* at most once, and the result's name is one of the palette names.  A call
\* returns because it can always step until it has returned and each step
\* lowers StepsLeft, which starts at no more than 23.
C18_TotalAndBounded ==
    [](C18_Bounded /\ C18_CanProceed) /\ [][C18_Closer]_vars

C18_Witness ==
    /\ frames["A"].pc = "done"
    /\ frames["A"].op = "detectColorFromHsv"
    /\ frames["A"].hsv = Hsv(Num(300), Rat(1, 2), Rat(1, 2))
    /\ \A k \in 1..Len(palette) : frames["A"].visits[k] = 1
    /\ frames["A"].ret.name = "Purple"

\* what each call returns when it runs alone
AloneDetectColor ==
    [rgb \in CallRgb \cup RandomRgb |-> detectColor(rgb.r, rgb.g, rgb.b)]
AloneDetectColorFromHsv ==
    [hsv \in CallHsv |-> detectColorFromHsv(hsv.h, hsv.s, hsv.v)]
AloneGetAvailableColors == [i \in 1..Len(COLOR_MAP) |-> COLOR_MAP[i].name]

\* C19: however the steps of concurrent detectColor, detectColorFromHsv,
\* getRandomColor and getAvailableColors calls interleave, each call returns
\* what it returns when run alone on the same input, the palette is the one
\* built at load time after any sequence of calls, and no returned object
\* is or shares a palette entry.
C19_NoInterference ==
    /\ palette = COLOR_MAP
    /\ \A p \in Callers :
           frames[p].pc = "done" =>
               /\ frames[p].alias = {}
               /\ frames[p].op \in {"detectColor", "getRandomColor"} =>
                      frames[p].ret = AloneDetectColor[frames[p].rgb]
               /\ frames[p].op = "detectColorFromHsv" =>
                      frames[p].ret = AloneDetectColorFromHsv[frames[p].hsv]
               /\ frames[p].op = "getAvailableColors" =>
                      frames[p].names = AloneGetAvailableColors

C19_Witness ==
    /\ frames["A"].pc = "done"
    /\ frames["A"].op = "detectColor"
    /\ frames["A"].ret.name = "Brown"
    /\ frames["B"].pc = "loop"
    /\ frames["B"].op = "detectColorFromHsv"
    /\ frames["B"].next = 10

AfterDetectViaHsv == calls = <<"rgbToHsv", "detectColorFromHsv">>

\* C20: for every integer RGB triple, detectColor(r, g, b) and
\* detectColorFromHsv applied to rgbToHsv(r, g, b) return the same name.
C20_SameNames ==
    AfterDetectViaHsv =>
        out.name = detectColor(rgbIn.r, rgbIn.g, rgbIn.b).name

C20_Witness ==
    /\ AfterDetectViaHsv
    /\ rgbIn = Rgb(255, 225, 225)
    /\ hsvIn = Hsv(Num(0), Rat(2, 17), Num(1))
    /\ out.name = "Light Gray"

AfterHsvToRgb == Len(calls) > 0 /\ calls[Len(calls)] = "hsvToRgb"

\* the 60-degree sectors (0 to 5) that contain a hue
SectorsOf(h) ==
    {k \in 0..5 : RGe(h, Num(60 * k)) /\ RLt(h, Num(60 * (k + 1)))}

\* the channels of rgb from the largest to the smallest, as sector k assigns
\* c, x and 0 to them
SectorOrder(k, rgb) ==
    CASE k = 0 -> <<rgb.r, rgb.g, rgb.b>>
      [] k = 1 -> <<rgb.g, rgb.r, rgb.b>>
      [] k = 2 -> <<rgb.g, rgb.b, rgb.r>>
      [] k = 3 -> <<rgb.b, rgb.g, rgb.r>>
      [] k = 4 -> <<rgb.b, rgb.r, rgb.g>>
      [] OTHER -> <<rgb.r, rgb.b, rgb.g>>

\* C21: for h in [0, 360) and s, v in [0, 1], hsvToRgb returns three integers
\* in 0..255; exactly one 60-degree sector contains h, and the channels are
\* assigned as that sector prescribes (its c channel the largest, its 0
\* channel the smallest).
C21_HsvToRgbRange ==
    AfterHsvToRgb =>
        /\ rgbOut.r \in 0..255 /\ rgbOut.g \in 0..255 /\ rgbOut.b \in 0..255
        /\ Cardinality(SectorsOf(hsvIn.h)) = 1
        /\ \A k \in SectorsOf(hsvIn.h) :
               /\ SectorOrder(k, rgbOut)[1] >= SectorOrder(k, rgbOut)[2]
               /\ SectorOrder(k, rgbOut)[2] >= SectorOrder(k, rgbOut)[3]
               /\ SectorOrder(k, rgbOut)[1] = RRound(RMul(hsvIn.v, Num(255)))

C21_Witness ==
    /\ calls = <<"hsvToRgb">>
    /\ hsvIn = Hsv(Num(330), Num(1), Num(1))
    /\ SectorsOf(hsvIn.h) = {5}
    /\ rgbOut = Rgb(255, 0, 128)

\* C22: every result of either entry point has hex equal to rgbToHex of its
\* own rgb, character for character (one letter case throughout).
C22_HexOfOwnRgb ==
    AfterDetect => out.hex = rgbToHex(out.rgb.r, out.rgb.g, out.rgb.b)

\* C23 (as claimed): detectColor returns "Black" exactly when the largest
\* channel is below 26, and an input that reaches the palette scan is never
\* named "Black".
C23_BlackOnlyFromGate ==
    AfterDetectColor =>
        /\ out.name = "Black" <=> MaxChannel(rgbIn) < 26
        /\ at = "scan" => out.name # "Black"

\* C23 (amended): detectColor returns "Black" for every input whose largest
\* channel is below 26 and for no input whose largest channel is above 31;
\* it names an input "Black" past the Black gate only in the palette scan,
\* when Black is the nearest palette entry.
C23_BlackIsDark ==
    AfterDetectColor =>
        /\ MaxChannel(rgbIn) < 26 => (out.name = "Black" /\ at = "black")
        /\ out.name = "Black" => MaxChannel(rgbIn) <= 31
        /\ (out.name = "Black" /\ MaxChannel(rgbIn) >= 26) =>
               /\ at = "scan"
               /\ findClosest(out.hsv) = IndexOf("Black")

C23_Witness ==
    /\ AfterDetectColor
    /\ rgbIn = Rgb(31, 26, 22)
    /\ at = "scan"
    /\ out.name = "Black"

\* C24: detectColor applied to a palette entry's own rgb returns that
\* entry's name, except for "Lime", whose rgb is named "Green".
C24_PaletteRgbKeepsName ==
    AfterDetectColor =>
        \A i \in EntriesOfRgbIn :
            out.name = IF COLOR_MAP[i].name = "Lime" THEN "Green"
                       ELSE COLOR_MAP[i].name

C24_Witness ==
    /\ AfterDetectColor
    /\ rgbIn = Rgb(255, 192, 203)
    /\ EntriesOfRgbIn = {IndexOf("Pink")}
    /\ at = "scan"
    /\ out.name = "Pink"

(***************************************************************************)
(* The camera component that detects through the AI model                  *)
(* (src/ColorDetector.ts, CameraComponent).  A render and the effects it   *)
(* triggers are one step.  The timer's callback is the                     *)
(* captureAndAnalyzeColor of the render in which the effect last ran: it   *)
(* reads that render's isProcessing, lastDetectionTime, cameraReady and    *)
(* aiModelLoaded, kept in interval, while cameraRef.current and the        *)
(* setters act on the component as it is now.  runs are the capture runs   *)
(* that passed the guards, each with the promise it is waiting for.        *)
(***************************************************************************)
\* colour names the AI model answers with
AiNames == {"Red", "Blue"}

\* the RNCamera element is rendered, so cameraRef.current is set
AiCameraMounted(c) ==
    c.hasPermission = "true" /\ c.isActive /\ ~c.cameraError

\* the interval effect, run in a render whose values are c
aiIntervalEffect(c, t) ==
    IF c.isActive /\ c.hasPermission = "true"
    THEN [NoInterval EXCEPT !.set = TRUE, !.due = t + 1000,
                            !.isProcessing = c.isProcessing,
                            !.lastDetectionTime = c.lastDetectionTime,
                            !.cameraReady = c.cameraReady,
                            !.aiModelLoaded = c.aiModelLoaded]
    ELSE NoInterval

\* the render after the state went from c to d: the effect runs again when
\* one of its dependencies [isActive, hasPermission, onColorDetected,
\* cameraReady] changed; handler tells that onColorDetected is a new function
aiRender(c, d, t, handler) ==
    IF \/ handler
       \/ d.isActive # c.isActive
       \/ d.hasPermission # c.hasPermission
       \/ d.cameraReady # c.cameraReady
    THEN [d EXCEPT !.interval = aiIntervalEffect(d, t)]
    ELSE d

NewRun(k, c, t) ==
    [pc |-> "capture", started |-> t, busy |-> c.isProcessing,
     aiModelLoaded |-> k.aiModelLoaded, capture |-> "pending",
     base64 |-> FALSE, loaded |-> FALSE, ai |-> "none",
     reported |-> << >>]

\* captureAndAnalyzeColor of the render whose values are k, called at time t
\* on the component c, up to its first await
aiCaptureAndAnalyzeColor(k, c, t) ==
    IF k.isProcessing THEN c
    ELSE IF t - k.lastDetectionTime < 1000 THEN c
    ELSE IF AiCameraMounted(c) /\ k.cameraReady
    THEN [c EXCEPT !.isProcessing = TRUE,
                   !.lastDetectionTime = t,
                   !.runs = Append(@, NewRun(k, c, t))]
    ELSE c

\* the end of run r: one outcome is shown and handed to onColorDetected,
\* then the finally block clears isProcessing.  The parent may render again
\* on the outcome, which hands down a new onColorDetected; the effect then
\* runs in a render that has the finally block's update (batched) or in one
\* that does not have it yet.
aiReport(c, r, name, rerender, batched, t) ==
    LET d == [c EXCEPT !.currentColor = name,
                       !.isProcessing = FALSE,
                       !.runs[r].pc = "done",
                       !.runs[r].reported = Append(@, name)]
    IN  IF rerender
        THEN [d EXCEPT !.interval =
                  aiIntervalEffect(IF batched THEN d
                                   ELSE [d EXCEPT !.isProcessing =
                                                      c.isProcessing], t)]
        ELSE d

OtherThanAiCamera == <<callVars, frameVars, now, camera, app, image>>

AiRequestCameraPermission(granted) ==
    /\ aiCamera.hasPermission # "true"
    /\ aiCamera' = aiRender(aiCamera,
                       [aiCamera EXCEPT !.hasPermission =
                            IF granted THEN "true" ELSE "false"],
                       now, FALSE)
    /\ UNCHANGED OtherThanAiCamera

AiInitializeAIModel(loaded) ==
    /\ aiCamera.initializeAIModel = "pending"
    /\ aiCamera' = aiRender(aiCamera,
                       [aiCamera EXCEPT !.initializeAIModel = "done",
                                        !.aiModelLoaded = loaded],
                       now, FALSE)
    /\ UNCHANGED OtherThanAiCamera

\* the parent's toggleCamera: isActive flips and the parent renders again
AiToggleCamera ==
    /\ aiCamera' = aiRender(aiCamera,
                       [aiCamera EXCEPT !.isActive = ~@], now, TRUE)
    /\ UNCHANGED OtherThanAiCamera

AiOnCameraReady ==
    /\ AiCameraMounted(aiCamera)
    /\ aiCamera' = aiRender(aiCamera,
                       [aiCamera EXCEPT !.cameraReady = TRUE,
                                        !.cameraError = FALSE],
                       now, FALSE)
    /\ UNCHANGED OtherThanAiCamera

AiOnMountError ==
    /\ AiCameraMounted(aiCamera)
    /\ aiCamera' = aiRender(aiCamera,
                       [aiCamera EXCEPT !.cameraError = TRUE,
                                        !.cameraReady = FALSE],
                       now, FALSE)
    /\ UNCHANGED OtherThanAiCamera

\* the timer fires
AiIntervalTick ==
    /\ aiCamera.interval.set /\ now = aiCamera.interval.due
    /\ Len(aiCamera.runs) < MaxRuns
    /\ aiCamera' = aiCaptureAndAnalyzeColor(aiCamera.interval,
                       [aiCamera EXCEPT !.interval.due = now + 1000], now)
    /\ UNCHANGED OtherThanAiCamera

\* takePictureAsync resolves, with or without base64 data
AiCaptureResolved(r, base64, rerender, batched) ==
    /\ r \in DOMAIN aiCamera.runs
    /\ aiCamera.runs[r].pc = "capture"
    /\ LET c == [aiCamera EXCEPT !.runs[r].capture = "resolved",
                                 !.runs[r].base64 = base64,
                                 !.runs[r].loaded = aiCamera.aiModelLoaded]
       IN  aiCamera' =
               IF base64 /\ c.runs[r].aiModelLoaded
               THEN [c EXCEPT !.runs[r].pc = "ai", !.runs[r].ai = "pending"]
               ELSE aiReport(c, r, "AI Not Ready", rerender, batched, now)
    /\ UNCHANGED OtherThanAiCamera

\* takePictureAsync rejects, without the finally block
AiCaptureRejectedNoFinally(r, rerender, batched) ==
    /\ r \in DOMAIN aiCamera.runs
    /\ aiCamera.runs[r].pc = "capture"
    /\ aiCamera' =
           [aiReport([aiCamera EXCEPT !.runs[r].capture = "rejected"],
                     r, "Capture Error", rerender, batched, now)
               EXCEPT !.isProcessing = aiCamera.isProcessing]
    /\ UNCHANGED OtherThanAiCamera

\* takePictureAsync rejects
AiCaptureRejected(r, rerender, batched) ==
    /\ r \in DOMAIN aiCamera.runs
    /\ aiCamera.runs[r].pc = "capture"
    /\ aiCamera' = aiReport([aiCamera EXCEPT !.runs[r].capture = "rejected"],
                            r, "Capture Error", rerender, batched, now)
    /\ UNCHANGED OtherThanAiCamera

\* AIColorDetector.detectColorWithAI resolves with a colour name
AiDetectResolved(r, name, rerender, batched) ==
    /\ r \in DOMAIN aiCamera.runs
    /\ aiCamera.runs[r].pc = "ai"
    /\ aiCamera' = aiReport([aiCamera EXCEPT !.runs[r].ai = "resolved"],
                            r, name, rerender, batched, now)
    /\ UNCHANGED OtherThanAiCamera

\* AIColorDetector.detectColorWithAI rejects
AiDetectRejected(r, rerender, batched) ==
    /\ r \in DOMAIN aiCamera.runs
    /\ aiCamera.runs[r].pc = "ai"
    /\ aiCamera' = aiReport([aiCamera EXCEPT !.runs[r].ai = "rejected"],
                            r, "AI Error", rerender, batched, now)
    /\ UNCHANGED OtherThanAiCamera

\* the clock advances, unless a timer is due
TimerDue(i) == i.set /\ now >= i.due
Advance ==
    /\ now < StartTime + MaxSteps * TimeStep
    /\ ~TimerDue(aiCamera.interval) /\ ~TimerDue(camera.interval)
    /\ now' = now + TimeStep
    /\ UNCHANGED <<callVars, frameVars, aiCamera, camera, app, image>>

ComponentsInit ==
    /\ NoCallVars
    /\ palette = COLOR_MAP
    /\ frames = [p \in Callers |-> IdleFrame]
    /\ NoComponents

\* a pending promise of the native camera or of the native model settles
AiSettle ==
    \E r \in 1..MaxRuns, rerender \in BOOLEAN, batched \in BOOLEAN :
        \/ \E base64 \in BOOLEAN :
               AiCaptureResolved(r, base64, rerender, batched)
        \/ AiCaptureRejected(r, rerender, batched)
        \/ \E name \in AiNames : AiDetectResolved(r, name, rerender, batched)
        \/ AiDetectRejected(r, rerender, batched)

AiCameraNext ==
    \/ \E granted \in BOOLEAN : AiRequestCameraPermission(granted)
    \/ \E loaded \in BOOLEAN : AiInitializeAIModel(loaded)
    \/ AiToggleCamera
    \/ AiOnCameraReady
    \/ AiOnMountError
    \/ AiIntervalTick
    \/ AiSettle
    \/ Advance

AiCamera == ComponentsInit /\ [][AiCameraNext]_vars /\ WF_vars(AiSettle)

RunsInFlight == {r \in DOMAIN aiCamera.runs : aiCamera.runs[r].pc # "done"}

\* C25: in the AI camera component at most one capture run is in flight at
\* any time: no run was started by a tick that fired while isProcessing was
\* set, and any two runs started at least 1000 ms apart.
C25_OneRunInFlight ==
    /\ Cardinality(RunsInFlight) <= 1
    /\ \A r \in DOMAIN aiCamera.runs : ~aiCamera.runs[r].busy
    /\ \A r, s \in DOMAIN aiCamera.runs :
           r < s => aiCamera.runs[s].started - aiCamera.runs[r].started >= 1000

\* what run reported follows from how its promises settled
AwaitedOutcome(run) ==
    /\ run.capture = "rejected" => run.reported = <<"Capture Error">>
    /\ run.capture = "resolved" /\ (~run.base64 \/ ~run.loaded)
           => run.reported = <<"AI Not Ready">>
    /\ run.ai = "rejected" => run.reported = <<"AI Error">>
    /\ run.ai = "resolved"
           => Len(run.reported) = 1 /\ run.reported[1] \in AiNames

C26_OneOutcome ==
    \A r \in DOMAIN aiCamera.runs :
        LET run == aiCamera.runs[r]
        IN  IF run.pc = "done"
            THEN Len(run.reported) = 1 /\ AwaitedOutcome(run)
            ELSE run.reported = << >>

C26_Clears ==
    \A r \in DOMAIN aiCamera.runs :
        aiCamera.runs[r].pc # "done" /\ aiCamera'.runs[r].pc = "done"
            => ~aiCamera'.isProcessing

C26_Finishes ==
    \A r \in 1..MaxRuns :
        (Len(aiCamera.runs) >= r)
            ~> (Len(aiCamera.runs) >= r /\ aiCamera.runs[r].pc = "done")

\* C26: in the AI camera component every capture run that set isProcessing
\* eventually ends, the step that ends it leaves isProcessing false, and the
\* run hands exactly one outcome to onColorDetected: the AI colour name when
\* detection resolved, "AI Error" when it rejected, "AI Not Ready" when the
\* frame had no base64 data or the model was not loaded, "Capture Error"
\* when the capture rejected.
C26_OneOutcomeAndCleared ==
    /\ []C26_OneOutcome
    /\ [][C26_Clears]_vars
    /\ C26_Finishes

C26_Witness ==
    /\ ~aiCamera.isProcessing
    /\ \E r \in DOMAIN aiCamera.runs :
           /\ aiCamera.runs[r].pc = "done"
           /\ aiCamera.runs[r].ai = "rejected"
           /\ aiCamera.runs[r].reported = <<"AI Error">>

(***************************************************************************)
(* The camera component that can fall back to simulation                   *)
(* (src/CameraComponent.tsx).  Its handlers are taken as callable at any   *)
(* time, in any order; the render wires onCameraReady and onMountError to  *)
(* the RNCamera element and the two switches to buttons.                   *)
(***************************************************************************)
\* the RNCamera element is rendered, so cameraRef.current is set
CameraMounted(c) ==
    /\ c.hasPermission = "true" /\ c.isActive
    /\ ~(c.isSimulationMode \/ c.cameraError)

\* the interval effect, run in a render whose values are c
cameraIntervalEffect(c, t) ==
    IF c.isActive /\ c.hasPermission = "true"
    THEN [NoInterval EXCEPT
              !.set = TRUE,
              !.due = t + (IF c.isSimulationMode THEN 2000 ELSE 1000),
              !.isSimulationMode = c.isSimulationMode,
              !.cameraReady = c.cameraReady]
    ELSE NoInterval

\* the render with cameraReady left out of the effect's dependencies
cameraRenderNoReadyDep(c, d, t, handler) ==
    IF \/ handler
       \/ d.isActive # c.isActive
       \/ d.hasPermission # c.hasPermission
       \/ d.isSimulationMode # c.isSimulationMode
    THEN [d EXCEPT !.interval = cameraIntervalEffect(d, t)]
    ELSE d

\* the render after the state went from c to d: the effect runs again when
\* one of [isActive, hasPermission, onColorDetected, isSimulationMode,
\* cameraReady] changed
cameraRender(c, d, t, handler) ==
    IF \/ handler
       \/ d.isActive # c.isActive
       \/ d.hasPermission # c.hasPermission
       \/ d.isSimulationMode # c.isSimulationMode
       \/ d.cameraReady # c.cameraReady
    THEN [d EXCEPT !.interval = cameraIntervalEffect(d, t)]
    ELSE d

OtherThanCamera == <<callVars, frameVars, now, aiCamera, app, image>>

RequestCameraPermission(granted) ==
    /\ camera.hasPermission # "true"
    /\ camera' = cameraRender(camera,
                     [camera EXCEPT !.hasPermission =
                          IF granted THEN "true" ELSE "false"],
                     now, FALSE)
    /\ UNCHANGED OtherThanCamera

\* the parent's toggleCamera: isActive flips and the parent renders again
ToggleCamera ==
    /\ camera' = cameraRender(camera, [camera EXCEPT !.isActive = ~@],
                              now, TRUE)
    /\ UNCHANGED OtherThanCamera

OnCameraReady ==
    /\ camera' = cameraRender(camera,
                     [camera EXCEPT !.cameraReady = TRUE,
                                    !.cameraError = FALSE,
                                    !.isSimulationMode = FALSE],
                     now, FALSE)
    /\ UNCHANGED OtherThanCamera

OnMountError ==
    /\ camera' = cameraRender(camera,
                     [camera EXCEPT !.cameraError = TRUE,
                                    !.cameraReady = FALSE,
                                    !.isSimulationMode = TRUE],
                     now, FALSE)
    /\ UNCHANGED OtherThanCamera

OnPermissionError ==
    /\ camera' = cameraRender(camera,
                     [camera EXCEPT !.hasPermission = "false",
                                    !.isSimulationMode = TRUE],
                     now, FALSE)
    /\ UNCHANGED OtherThanCamera

SwitchToSimulationMode ==
    /\ camera' = cameraRender(camera,
                     [camera EXCEPT !.isSimulationMode = TRUE,
                                    !.cameraError = FALSE],
                     now, FALSE)
    /\ UNCHANGED OtherThanCamera

SwitchToCameraMode ==
    /\ camera' = cameraRender(camera,
                     [camera EXCEPT !.isSimulationMode = FALSE,
                                    !.cameraError = FALSE,
                                    !.cameraReady = FALSE],
                     now, FALSE)
    /\ UNCHANGED OtherThanCamera

\* captureAndAnalyzeColor of the render whose values are k, called on the
\* component c, up to its await
captureAndAnalyzeColor(k, c) ==
    IF CameraMounted(c) /\ k.cameraReady /\ ~k.isSimulationMode
    THEN [c EXCEPT !.capturing = @ + 1,
                   !.lastAttempt = [made |-> TRUE,
                                    cameraReady |-> c.cameraReady,
                                    isSimulationMode |-> c.isSimulationMode]]
    ELSE c

\* the timer of the real camera mode fires
CaptureTick ==
    /\ camera.interval.set /\ now = camera.interval.due
    /\ ~camera.interval.isSimulationMode
    /\ camera.capturing < MaxRuns
    /\ camera' = captureAndAnalyzeColor(camera.interval,
                     [camera EXCEPT !.interval.due = now + 1000])
    /\ UNCHANGED OtherThanCamera

\* the timer of the simulation mode fires: a random colour is handed to
\* onColorDetected, on which the parent may render again
SimulationTick(rerender) ==
    /\ camera.interval.set /\ now = camera.interval.due
    /\ camera.interval.isSimulationMode
    /\ LET c == [camera EXCEPT !.interval.due = now + 2000]
       IN  camera' = cameraRender(c, c, now, rerender)
    /\ UNCHANGED OtherThanCamera

\* a capture ends, in a detected or in a random colour, which is handed to
\* onColorDetected, on which the parent may render again
CaptureSettled(rerender) ==
    /\ camera.capturing > 0
    /\ LET c == [camera EXCEPT !.capturing = @ - 1]
       IN  camera' = cameraRender(c, c, now, rerender)
    /\ UNCHANGED OtherThanCamera

CameraNext ==
    \/ \E granted \in BOOLEAN : RequestCameraPermission(granted)
    \/ ToggleCamera
    \/ OnCameraReady
    \/ OnMountError
    \/ OnPermissionError
    \/ SwitchToSimulationMode
    \/ SwitchToCameraMode
    \/ CaptureTick
    \/ \E rerender \in BOOLEAN : SimulationTick(rerender)
    \/ \E rerender \in BOOLEAN : CaptureSettled(rerender)
    \/ Advance

Camera == ComponentsInit /\ [][CameraNext]_vars

\* C27: in the simulation-capable camera component, whatever handlers ran,
\* cameraError implies isSimulationMode and not cameraReady, and whenever
\* takePictureAsync was called cameraReady was true and isSimulationMode
\* was false.
C27_ErrorMeansSimulation ==
    /\ camera.cameraError => camera.isSimulationMode /\ ~camera.cameraReady
    /\ camera.lastAttempt.made
           => camera.lastAttempt.cameraReady
              /\ ~camera.lastAttempt.isSimulationMode

C27_Witness ==
    /\ camera.lastAttempt.made
    /\ camera.cameraError

(***************************************************************************)
(* The App component (src/App.tsx).  handleColorDetected is a new function *)
(* in every render and reads that render's lastSpokenColor and             *)
(* lastSpokenTime.  The child calls the function it was handed: its timer  *)
(* effect runs again in every render of App, as onColorDetected is one of  *)
(* its dependencies, while a capture that is waiting for the camera or for *)
(* the native analysis keeps the function of the render in which its timer *)
(* was set (src/CameraComponent.tsx 82-116).                               *)
(***************************************************************************)
\* names handed to handleColorDetected
DetectedNames ==
    {<< >>, <<" ">>, <<"R", "e", "d">>, <<"B", "l", "u", "e">>}

RECURSIVE trimStart(_)
trimStart(s) ==
    IF s = << >> THEN s
    ELSE IF Head(s) = " " THEN trimStart(Tail(s)) ELSE s

RECURSIVE trimEnd(_)
trimEnd(s) ==
    IF s = << >> THEN s
    ELSE IF s[Len(s)] = " " THEN trimEnd(SubSeq(s, 1, Len(s) - 1)) ELSE s

\* String.prototype.trim
trim(s) == trimEnd(trimStart(s))

\* the handleColorDetected of the current render
CurrentHandler(a) ==
    [lastSpokenColor |-> a.lastSpokenColor,
     lastSpokenTime |-> a.lastSpokenTime]

\* shouldSpeak, in the handler k called with name at time t
shouldSpeak(k, name, t) ==
    /\ trim(name) # << >>
    /\ \/ name # k.lastSpokenColor
       \/ t - k.lastSpokenTime > 3000

\* the handler k called with name at time t, on the App a
handleColorDetected(k, a, name, t) ==
    LET speak == shouldSpeak(k, name, t)
        said == Append(a.spoken, [name |-> name, at |-> t])
    IN  [a EXCEPT
            !.last = [name |-> name, spoke |-> speak,
                      lastName |-> a.lastSpokenColor,
                      lastTime |-> a.lastSpokenTime, at |-> t],
            !.spoken = IF ~speak THEN @
                       ELSE IF Len(said) > 2 THEN Tail(said) ELSE said,
            !.lastSpokenColor = IF speak THEN name ELSE @,
            !.lastSpokenTime = IF speak THEN t ELSE @]

OtherThanApp == <<callVars, frameVars, aiCamera, camera, image>>

\* the child's timer starts a capture, which holds the handler of the
\* current render until it ends
CaptureStarted ==
    /\ Len(app.held) < MaxRuns
    /\ app' = [app EXCEPT !.held = Append(@, CurrentHandler(app))]
    /\ UNCHANGED <<now, OtherThanApp>>

\* the i-th capture ends and calls the handler it holds
CaptureDetected(i, name) ==
    /\ i \in DOMAIN app.held
    /\ LET a == [app EXCEPT !.held = [j \in 1..(Len(@) - 1) |->
                                         IF j < i THEN @[j] ELSE @[j + 1]]]
       IN  app' = handleColorDetected(app.held[i], a, name, now)
    /\ UNCHANGED <<now, OtherThanApp>>

\* the child's simulation timer calls the handler of the current render
SimulationDetected(name) ==
    /\ app' = handleColorDetected(CurrentHandler(app), app, name, now)
    /\ UNCHANGED <<now, OtherThanApp>>

\* time passes, a period of the child's timer at a time
Wait ==
    /\ now < StartTime + MaxWaits * 1000
    /\ now' = now + 1000
    /\ UNCHANGED <<app, OtherThanApp>>

AppNext ==
    \/ CaptureStarted
    \/ \E i \in 1..MaxRuns, name \in DetectedNames : CaptureDetected(i, name)
    \/ \E name \in DetectedNames : SimulationDetected(name)
    \/ Wait

App == ComponentsInit /\ [][AppNext]_vars

\* C28: handleColorDetected speaks a name exactly when it is not blank and
\* differs from the name spoken last or comes more than 3000 ms after the
\* last utterance; no blank name is spoken, and two consecutive utterances
\* of one name are more than 3000 ms apart.
C28_SpeaksWhenDue ==
    /\ app.last.at # 0
           => (app.last.spoke
                   <=> /\ trim(app.last.name) # << >>
                       /\ \/ app.last.name # app.last.lastName
                          \/ app.last.at - app.last.lastTime > 3000)
    /\ \A i \in DOMAIN app.spoken : trim(app.spoken[i].name) # << >>
    /\ Len(app.spoken) = 2 /\ app.spoken[1].name = app.spoken[2].name
           => app.spoken[2].at - app.spoken[1].at > 3000

(***************************************************************************)
(* ImageProcessorModule.analyzeImageColor                                  *)
(* (src/android/app/src/main/java/com/colorlensnew/ImageProcessorModule.kt)*)
(* A call is given base64 data that is malformed (Base64.decode throws),   *)
(* that decodes to bytes which are no image (decodeByteArray returns       *)
(* null), or that decodes to a bitmap.  A pixel is its 24 colour bits; the *)
(* alpha bits play no part.  The hex and HSV fields of the result are      *)
(* derived from the three averages and are left out.                       *)
(***************************************************************************)
\* pixel values: black, white and (128, 255, 1)
Shades == <<0, 255 * 65536 + 255 * 256 + 255, 128 * 65536 + 255 * 256 + 1>>

\* Color.red, Color.green, Color.blue
colorRed(pixel) == (pixel \div 65536) % 256
colorGreen(pixel) == (pixel \div 256) % 256
colorBlue(pixel) == pixel % 256

\* a bitmap of the given size whose pixels follow a pattern of the shades
Bitmap(w, h, a, b, c) ==
    [NoImage EXCEPT
        !.pc = "called", !.input = "bitmap", !.width = w, !.height = h,
        !.pixels = [cell \in (0..(w - 1)) \X (0..(h - 1)) |->
                       Shades[((a * cell[1] + b * cell[2] + c)
                                   % Len(Shades)) + 1]]]

ImageCalls ==
    {[NoImage EXCEPT !.pc = "called", !.input = "malformed"],
     [NoImage EXCEPT !.pc = "called", !.input = "undecodable"]}
    \cup {Bitmap(w, h, a, b, c) :
              w \in 1..MaxSide, h \in 1..MaxSide,
              a \in 0..2, b \in 0..2, c \in 0..2}

\* the cells the two loops visit, in order, when both run up to but not
\* including centre + sampleSize/2
loopCellsHalfOpen(centerX, centerY, sampleSize) ==
    LET half == sampleSize \div 2
        side == 2 * half
    IN  [i \in 1..(side * side) |->
            <<centerX - half + ((i - 1) \div side),
              centerY - half + ((i - 1) % side)>>]

\* the cells the two loops visit, in order: x from centerX - sampleSize/2
\* until centerX + sampleSize/2 + 1, and y likewise within each x
loopCells(centerX, centerY, sampleSize) ==
    LET half == sampleSize \div 2
        side == 2 * half + 1
    IN  [i \in 1..(side * side) |->
            <<centerX - half + ((i - 1) \div side),
              centerY - half + ((i - 1) % side)>>]

\* the samples list after the loops
samplePixels(bitmap) ==
    LET centerX == bitmap.width \div 2
        centerY == bitmap.height \div 2
        Inside(cell) ==
            /\ cell[1] >= 0 /\ cell[1] < bitmap.width
            /\ cell[2] >= 0 /\ cell[2] < bitmap.height
        cells == SelectSeq(loopCells(centerX, centerY, 3), Inside)
    IN  [i \in 1..Len(cells) |-> bitmap.pixels[cells[i]]]

RECURSIVE totalOf(_, _, _)
\* the running total of one channel over the samples from index i on
totalOf(samples, i, channel) ==
    IF i > Len(samples) THEN 0
    ELSE (CASE channel = "red" -> colorRed(samples[i])
            [] channel = "green" -> colorGreen(samples[i])
            [] channel = "blue" -> colorBlue(samples[i]))
         + totalOf(samples, i + 1, channel)

analyzeColorsSimple(samples) ==
    [red |-> totalOf(samples, 1, "red") \div Len(samples),
     green |-> totalOf(samples, 1, "green") \div Len(samples),
     blue |-> totalOf(samples, 1, "blue") \div Len(samples),
     sampleCount |-> Len(samples)]

Resolve(result) == [call |-> "resolve", code |-> "", result |-> result]
Reject(code) ==
    [call |-> "reject", code |-> code,
     result |-> [red |-> 0, green |-> 0, blue |-> 0, sampleCount |-> 0]]

\* one call of analyzeImageColor, start to end
AnalyzeImageColor ==
    /\ image.pc = "called"
    /\ image' =
           IF image.input = "malformed"
           THEN [image EXCEPT !.pc = "returned",
                              !.settled = Append(@, Reject("PROCESSING_ERROR"))]
           ELSE IF image.input = "undecodable"
           THEN [image EXCEPT !.pc = "returned",
                              !.settled = Append(@, Reject("DECODE_ERROR"))]
           ELSE LET samples == samplePixels(image)
                IN  [image EXCEPT
                        !.pc = "returned",
                        !.samples = samples,
                        !.settled =
                            IF samples # << >>
                            THEN Append(@, Resolve(analyzeColorsSimple(samples)))
                            ELSE Append(@, Reject("SAMPLE_ERROR"))]
    /\ UNCHANGED <<callVars, frameVars, now, aiCamera, camera, app>>

ImageProcessorInit ==
    /\ NoCallVars
    /\ palette = COLOR_MAP
    /\ frames = [p \in Callers |-> IdleFrame]
    /\ now = StartTime
    /\ aiCamera = AiCameraInitial
    /\ camera = CameraInitial
    /\ app = AppInitial
    /\ image \in ImageCalls

ImageProcessorNext == AnalyzeImageColor

ImageProcessor == ImageProcessorInit /\ [][ImageProcessorNext]_vars

\* the 3x3 window centred at (width/2, height/2), clipped to the bitmap
ClippedWindow(bitmap) ==
    {cell \in (0..(bitmap.width - 1)) \X (0..(bitmap.height - 1)) :
        /\ cell[1] - bitmap.width \div 2 \in -1..1
        /\ cell[2] - bitmap.height \div 2 \in -1..1}

RECURSIVE WindowTotal(_, _, _)
WindowTotal(bitmap, cells, shift) ==
    IF cells = {} THEN 0
    ELSE LET cell == CHOOSE x \in cells : TRUE
         IN  ((bitmap.pixels[cell] \div shift) % 256)
             + WindowTotal(bitmap, cells \ {cell}, shift)

\* the result is the per-channel integer average over the clipped window
WindowAverage(bitmap, result) ==
    LET cells == ClippedWindow(bitmap)
        count == Cardinality(cells)
    IN  /\ result.sampleCount = count
        /\ count \in 1..9
        /\ bitmap.width >= 3 /\ bitmap.height >= 3 => count = 9
        /\ result.red = WindowTotal(bitmap, cells, 65536) \div count
        /\ result.green = WindowTotal(bitmap, cells, 256) \div count
        /\ result.blue = WindowTotal(bitmap, cells, 1) \div count
        /\ result.red \in 0..255
        /\ result.green \in 0..255
        /\ result.blue \in 0..255

\* C29 as stated: analyzeImageColor settles its promise exactly once; it
\* rejects with DECODE_ERROR when no bitmap was decoded and otherwise
\* resolves with the per-channel integer average of the clipped 3x3 window
\* (1 to 9 samples, 9 when both sides are at least 3, averages in 0..255);
\* it never rejects a decoded bitmap with SAMPLE_ERROR.
C29_DecodeErrorOrAverage ==
    image.pc = "returned" =>
        /\ Len(image.settled) = 1
        /\ IF image.input # "bitmap"
           THEN image.settled[1] = Reject("DECODE_ERROR")
           ELSE /\ image.settled[1].call = "resolve"
                /\ WindowAverage(image, image.settled[1].result)

\* C29: analyzeImageColor settles its promise exactly once; it rejects with
\* PROCESSING_ERROR when the base64 data is malformed, with DECODE_ERROR
\* when the bytes are no image, and otherwise resolves with the per-channel
\* integer average of the clipped 3x3 window (1 to 9 samples, 9 when both
\* sides are at least 3, averages in 0..255); it never rejects a decoded
\* bitmap with SAMPLE_ERROR.
C29_SettledOnce ==
    image.pc = "returned" =>
        /\ Len(image.settled) = 1
        /\ CASE image.input = "malformed" ->
                    image.settled[1] = Reject("PROCESSING_ERROR")
             [] image.input = "undecodable" ->
                    image.settled[1] = Reject("DECODE_ERROR")
             [] OTHER ->
                    /\ image.settled[1].call = "resolve"
                    /\ WindowAverage(image, image.settled[1].result)

C29_Witness ==
    /\ image.pc = "returned"
    /\ image.width = 2 /\ image.height = 1
    /\ image.settled[1].call = "resolve"
    /\ image.settled[1].result.sampleCount = 2
    /\ image.settled[1].result.red = 127

=============================================================================
